---- MODULE Spec2Model ----
(***************************************************************************)
(* Study-aid backend: the upload pipeline (OCR -> analysis -> quiz ->      *)
(* videos -> persist), the document store and the chat session manager,    *)
(* modelled as a state machine over the two Mongoose collections.          *)
(*                                                                         *)
(* Conventions.                                                            *)
(*  - A JavaScript string that the code only passes around is a TLA+       *)
(*    string.  A text the code takes apart (OCR output) is a sequence of   *)
(*    tokens: words, " ", "\n" and sentence punctuation ".".               *)
(*  - A value that may be undefined is a sequence of length 0 or 1:        *)
(*    None == <<>>, Some(x) == <<x>>.                                      *)
(*  - Document identifiers in a request are integers: a positive number   *)
(*    is a well-formed ObjectId, 0 is a malformed one (findById throws a   *)
(*    CastError) and a negative number is a missing one.                   *)
(*  - Every handler that awaits between a read and a write of the store    *)
(*    and whose interleaving matters (upload, send) is split at those      *)
(*    awaits; the other handlers are one action each.                      *)
(***************************************************************************)
EXTENDS Integers, Sequences, FiniteSets, TLC

\* ---------------------------------------------------------------- bounds
MaxUploads == 2    \* upload requests started in one behaviour
MaxClock == 5      \* writes to the store (each takes one tick of the clock)
MaxSends == 2      \* send requests that may be in flight at once
MaxTurns == 6      \* turns of the longest conversation a behaviour starts from
MaxPage == 3       \* the largest page number a list request asks for
MaxLimit == 2      \* the largest page size a list request asks for
MaxWork == 2       \* delete and regenerate requests that may be in flight at once

None == <<>>
Some(x) == <<x>>
IsSome(o) == Len(o) > 0
Get(o) == o[1]

\* JavaScript `a || b` on optional strings/texts: a when a is defined and
\* truthy (a non-empty string), else b.
OrElse(a, b) == IF IsSome(a) /\ Len(Get(a)) > 0 THEN a ELSE b

Last(s) == s[Len(s)]

\* s.slice(-n)
SliceLast(s, n) == IF Len(s) <= n THEN s ELSE SubSeq(s, Len(s) - n + 1, Len(s))

\* s.slice(0, n)
SliceFirst(s, n) == IF Len(s) <= n THEN s ELSE SubSeq(s, 1, n)

\* ---------------------------------------------------------------- strings
\* String.prototype.substring(0, n)
Substring(str, n) == IF Len(str) <= n THEN str ELSE SubSeq(str, 1, n)

\* the character of str at position i, counted from 1; "" outside the string
CharAt(str, i) == IF i >= 1 /\ i <= Len(str) THEN SubSeq(str, i, i) ELSE ""

\* the vertical tab, U+000B
VerticalTab == ""

\* The white space of ECMAScript, which String.prototype.trim removes and \s
\* matches in a regular expression: of the characters a text here can hold
\* (U+0000 to U+007F) the space, the tab, the vertical tab, the form feed
\* and the two line terminators.
WhiteSpace == {" ", "\t", VerticalTab, "\f", "\n", "\r"}

RECURSIVE StringTrim(_)
\* String.prototype.trim
StringTrim(str) ==
  LET n == Len(str)
  IN IF n > 0 /\ SubSeq(str, 1, 1) \in WhiteSpace
     THEN StringTrim(SubSeq(str, 2, n))
     ELSE IF n > 0 /\ SubSeq(str, n, n) \in WhiteSpace
     THEN StringTrim(SubSeq(str, 1, n - 1))
     ELSE str

RECURSIVE Repeat(_, _)
\* String.prototype.repeat
Repeat(str, n) == IF n = 0 THEN "" ELSE str \o Repeat(str, n - 1)

\* the least position from `from` on where the character c stands, 0 when
\* there is none
IndexFrom(text, c, from) ==
  LET ks == {k \in from..Len(text) : CharAt(text, k) = c}
  IN IF ks = {} THEN 0 ELSE CHOOSE k \in ks : \A j \in ks : k <= j

RECURSIVE SplitOn(_, _)
\* String.prototype.split on a one-character separator
SplitOn(str, sep) ==
  LET k == IndexFrom(str, sep, 1)
  IN IF k = 0 THEN <<str>>
     ELSE <<SubSeq(str, 1, k - 1)>> \o SplitOn(SubSeq(str, k + 1, Len(str)), sep)

\* ------------------------------------------------------------ text tokens
IsWs(t) == t \in {" ", "\n"}
IsStop(t) == t \in {".", "!", "?"}

RECURSIVE TrimLeft(_)
TrimLeft(s) == IF s # <<>> /\ IsWs(s[1]) THEN TrimLeft(Tail(s)) ELSE s

RECURSIVE TrimRight(_)
TrimRight(s) ==
  IF s # <<>> /\ IsWs(Last(s)) THEN TrimRight(SubSeq(s, 1, Len(s) - 1)) ELSE s

\* String.prototype.trim on a token text
Trim(s) == TrimRight(TrimLeft(s))

RECURSIVE CollapseNewlines(_)
\* .replace(/\n+/g, '\n')
CollapseNewlines(s) ==
  IF Len(s) < 2 THEN s
  ELSE IF s[1] = "\n" /\ s[2] = "\n" THEN CollapseNewlines(Tail(s))
       ELSE <<s[1]>> \o CollapseNewlines(Tail(s))

RECURSIVE CollapseWhitespace(_)
\* .replace(/\s+/g, ' '): every maximal run of whitespace becomes one space
CollapseWhitespace(s) ==
  IF s = <<>> THEN <<>>
  ELSE IF IsWs(s[1])
       THEN <<" ">> \o CollapseWhitespace(TrimLeft(s))
       ELSE <<s[1]>> \o CollapseWhitespace(Tail(s))

\* GoogleVisionService.processExtractedText
processExtractedText(rawText) ==
  IF rawText = <<>> THEN <<>>
  ELSE Trim(CollapseWhitespace(CollapseNewlines(rawText)))

RECURSIVE Flatten(_)
\* the JavaScript string a token text stands for
Flatten(s) ==
  IF s = <<>> THEN ""
  ELSE IF Len(s) = 1 THEN s[1]
  ELSE Flatten(SubSeq(s, 1, Len(s) \div 2))
         \o Flatten(SubSeq(s, Len(s) \div 2 + 1, Len(s)))

RECURSIVE JoinWith(_, _)
\* Array.prototype.join on an array of strings
JoinWith(arr, sep) ==
  IF arr = <<>> THEN ""
  ELSE IF Len(arr) = 1 THEN arr[1]
       ELSE arr[1] \o sep \o JoinWith(Tail(arr), sep)

\* ------------------------------------------------------------ OCR adapter
\* An image path is a token text whose "/" tokens separate its segments.
RECURSIVE AfterLastSlash(_)
\* imagePath.split('/').pop()
AfterLastSlash(path) ==
  IF \E i \in 1..Len(path) : path[i] = "/"
  THEN AfterLastSlash(Tail(path))
  ELSE path

PlaceholderBody == <<
  "[OCR", " ", "Service", " ", "Unavailable]", "\n", "\n", "This", " ",
  "appears", " ", "to", " ", "be", " ", "an", " ", "uploaded", " ", "image",
  " ", "file", ".", " ", "The", " ", "Google", " ", "Vision", " ", "API",
  " ", "is", " ", "not", " ", "currently", " ", "configured,", " ", "so",
  " ", "automatic", " ", "text", " ", "extraction", " ", "is", " ", "not",
  " ", "available", ".", "\n", "\n", "To", " ", "use", " ", "this", " ",
  "service", " ", "properly,", " ", "please:", "\n", "1", ".", " ", "Set",
  " ", "up", " ", "a", " ", "Google", " ", "Cloud", " ", "Project", "\n",
  "2", ".", " ", "Enable", " ", "the", " ", "Vision", " ", "API", "\n", "3",
  ".", " ", "Create", " ", "a", " ", "service", " ", "account", " ", "and",
  " ", "download", " ", "the", " ", "credentials", " ", "JSON", " ", "file",
  "\n", "4", ".", " ", "Set", " ", "the", " ", "GOOGLE_CLOUD_PROJECT_ID",
  " ", "and", " ", "GOOGLE_APPLICATION_CREDENTIALS", " ", "environment", " ",
  "variables", "\n", "\n", "For", " ", "now,", " ", "you", " ", "can", " ",
  "manually", " ", "type", " ", "the", " ", "content", " ", "from", " ",
  "your", " ", "image", " ", "in", " ", "the", " ", "prompt", " ", "field",
  " ", "to", " ", "get", " ", "AI", " ", "analysis", ".", "\n", "\n",
  "Image", " ", "file:", " " >>

\* GoogleVisionService.fallbackTextExtraction.  Confidence is in tenths.
fallbackTextExtraction(imagePath) ==
  LET fallbackText == PlaceholderBody \o AfterLastSlash(imagePath)
  IN [success |-> TRUE, structuredText |-> None,
      extractedText |-> Some(fallbackText), rawText |-> Some(fallbackText),
      confidence |-> 0]

\* What the OCR provider does for one request:
\*   configured  the constructor found project id and credentials
\*   doc         documentTextDetection: "throws", "none" (no
\*               fullTextAnnotation) or "pages"
\*   paragraphs  the paragraphs of the pages, each a sequence of words,
\*               each word the sequence of its symbols
\*   fullText    fullTextAnnotation.text is truthy
\*   text        textDetection: "throws", "none" (no detections) or "found"
\*   description detections[0].description
\*   conf        detections[0].confidence in tenths, 0 when absent

\* GoogleVisionService.extractTextFromImage
extractTextFromImage(ocr, imagePath) ==
  IF ~ocr.configured THEN fallbackTextExtraction(imagePath)
  ELSE IF ocr.text # "found" THEN fallbackTextExtraction(imagePath)
  ELSE [success |-> TRUE, structuredText |-> None,
        extractedText |-> Some(processExtractedText(ocr.description)),
        rawText |-> Some(ocr.description),
        confidence |-> IF ocr.conf # 0 THEN ocr.conf ELSE 8]

RECURSIVE ParagraphText(_)
\* words.forEach(word => paragraphText += symbols of the word + ' ')
ParagraphText(words) ==
  IF words = <<>> THEN <<>>
  ELSE words[1] \o <<" ">> \o ParagraphText(Tail(words))

RECURSIVE StructuredText(_)
\* structuredText += paragraphText.trim() + '\n\n'
StructuredText(paragraphs) ==
  IF paragraphs = <<>> THEN <<>>
  ELSE Trim(ParagraphText(paragraphs[1])) \o <<"\n", "\n">>
         \o StructuredText(Tail(paragraphs))

\* GoogleVisionService.detectDocumentStructure
detectDocumentStructure(ocr, imagePath) ==
  IF ~ocr.configured THEN fallbackTextExtraction(imagePath)
  ELSE IF ocr.doc # "pages" THEN extractTextFromImage(ocr, imagePath)
  ELSE [success |-> TRUE,
        structuredText |-> Some(Trim(StructuredText(ocr.paragraphs))),
        extractedText |-> None, rawText |-> None,
        confidence |-> IF ocr.fullText THEN 9 ELSE 7]

\* ----------------------------------------------------- AI-analysis adapter
\* JavaScript truthiness of an optional string
Truthy(o) == IsSome(o) /\ Get(o) # ""

\* number of maximal whitespace runs of a text
WsRuns(s) ==
  Cardinality({i \in 1..Len(s) : IsWs(s[i]) /\ (i = 1 \/ ~IsWs(s[i - 1]))})

\* the positions where a piece of text.split(/[.!?]+/) starts; the empty
\* pieces of the split (before a leading stop, after a trailing one) have
\* no position
PieceStarts(s) ==
  {i \in 1..Len(s) : ~IsStop(s[i]) /\ (i = 1 \/ IsStop(s[i - 1]))}

\* the piece that starts at position i: up to the next stop
PieceAt(s, i) ==
  LET stops == {j \in i..Len(s) : IsStop(s[j])}
      end == IF stops = {} THEN Len(s)
             ELSE (CHOOSE j \in stops : \A k \in stops : j <= k) - 1
  IN SubSeq(s, i, end)

RECURSIVE PiecesFrom(_, _)
PiecesFrom(s, starts) ==
  IF starts = {} THEN <<>>
  ELSE LET i == CHOOSE j \in starts : \A k \in starts : j <= k
       IN <<PieceAt(s, i)>> \o PiecesFrom(s, starts \ {i})

\* the non-empty pieces of text.split(/[.!?]+/), in order
SplitSentences(s) == PiecesFrom(s, PieceStarts(s))

NonBlank(piece) == Trim(piece) # <<>>

RECURSIVE FlattenAll(_)
FlattenAll(pieces) ==
  IF pieces = <<>> THEN <<>> ELSE <<Flatten(pieces[1])>> \o FlattenAll(Tail(pieces))

\* GeminiService.fallbackAnalysis
fallbackAnalysis(extractedText, userPrompt) ==
  LET wordCount == WsRuns(extractedText) + 1
      sentences == SelectSeq(SplitSentences(extractedText), NonBlank)
      firstSentences == JoinWith(FlattenAll(SliceFirst(sentences, 3)), ". ") \o "."
  IN [success |-> TRUE,
      analysis |->
        [summary |-> "This document contains approximately "
                       \o ToString(wordCount) \o " words. " \o firstSentences,
         explanation |-> "This appears to be study material related to: "
                       \o userPrompt \o ". The content covers various topics"
                       \o " that would benefit from AI analysis. Please"
                       \o " configure the GEMINI_API_KEY to get detailed"
                       \o " AI-powered analysis.",
         keyPoints |-> <<"Content extracted from uploaded image",
                         "Document contains " \o ToString(wordCount) \o " words",
                         "AI analysis requires Gemini API configuration",
                         "Manual review recommended for detailed understanding">>,
         concepts |-> <<"Study Material", "Content Analysis",
                        "Educational Content">>,
         searchKeywords |-> <<"study", "education", "learning", "tutorial",
                              "explanation">>]]

\* What the AI provider does for one generateContent call:
\*   mode    "unconfigured" (no API key), "throws" or "responds"
\*   text    the text the provider answers with
\*   json    what JSON.parse does with the {...} span of the text, when the
\*           text has one: "object" when it returns an object,
\*           "unparseable" when it throws
\*   parsed  the parsed object's fields, each optional: a text field is None
\*           when missing or null, a list field when missing or not an array

UpperCase == "ABCDEFGHIJKLMNOPQRSTUVWXYZ"
LowerCase == "abcdefghijklmnopqrstuvwxyz"

\* a character as the i flag of a regular expression compares it
FoldChar(c) ==
  IF \E k \in 1..26 : CharAt(UpperCase, k) = c
  THEN CharAt(LowerCase, CHOOSE k \in 1..26 : CharAt(UpperCase, k) = c)
  ELSE c

\* the literal stands in the text at position p, letter case ignored
MatchesAt(text, p, literal) ==
  \A k \in 1..Len(literal) :
    FoldChar(CharAt(text, p + k - 1)) = FoldChar(CharAt(literal, k))

RECURSIVE SkipWs(_, _)
\* [\s]* from position p: the first position that holds no white space
SkipWs(text, p) == IF CharAt(text, p) \in WhiteSpace THEN SkipWs(text, p + 1) ELSE p

\* cleanText.match(/\{[\s\S]*\}/), line 238: a "{" with a "}" after it.
\* trim and the removal of code fences (lines 232-235) take no brace away.
HasJsonSpan(text) ==
  LET opens == IndexFrom(text, "{", 1)
  IN opens # 0 /\ IndexFrom(text, "}", opens + 1) # 0

\* The group captured when the pattern
\*   "sectionName"[\s]*:[\s]*<open>([^<close>]{least,})<close>
\* matches at position p of the text, None when it does not match there.
CaptureAt(text, p, sectionName, open, close, least) ==
  LET literal == "\"" \o sectionName \o "\""
      colon == SkipWs(text, p + Len(literal))
      opens == SkipWs(text, colon + 1)
      closes == IndexFrom(text, close, opens + 1)
  IN IF /\ MatchesAt(text, p, literal)
        /\ CharAt(text, colon) = ":"
        /\ CharAt(text, opens) = open
        /\ closes # 0
        /\ closes - opens - 1 >= least
     THEN Some(SubSeq(text, opens + 1, closes - 1))
     ELSE None

\* text.match(regex)[1]: the group of the leftmost match, None for no match
Capture(text, sectionName, open, close, least) ==
  LET ps == {p \in 1..Len(text) :
               IsSome(CaptureAt(text, p, sectionName, open, close, least))}
  IN IF ps = {} THEN None
     ELSE CaptureAt(text, CHOOSE p \in ps : \A q \in ps : p <= q,
                    sectionName, open, close, least)

\* GeminiService.extractSection: the quoted value of "sectionName": "...",
\* None for null
extractSection(text, sectionName) == Capture(text, sectionName, "\"", "\"", 0)

\* item.replace(/^"|"$/g, ''), and the same with the single quote
StripQuote(str, quote) ==
  LET a == IF CharAt(str, 1) = quote THEN SubSeq(str, 2, Len(str)) ELSE str
  IN IF Len(a) > 0 /\ CharAt(a, Len(a)) = quote THEN SubSeq(a, 1, Len(a) - 1) ELSE a

NonEmptyString(str) == Len(str) > 0

\* GeminiService.extractArraySection: the items of "sectionName": [...],
\* None for null; a bracket pair with only white space gives the empty list
extractArraySection(text, sectionName) ==
  LET match == Capture(text, sectionName, "[", "]", 1)
      parts == SplitOn(Get(match), ",")
      items == [i \in 1..Len(parts) |->
                  StripQuote(StripQuote(StringTrim(parts[i]), "\""), "'")]
  IN IF IsSome(match) THEN Some(SelectSeq(items, NonEmptyString)) ELSE None

\* parseAnalysisResponse, lines 264-273: the catch block
ScrapeAnalysis(text) ==
  LET summary == extractSection(text, "summary")
      explanation == extractSection(text, "explanation")
      keyPoints == extractArraySection(text, "keyPoints")
      concepts == extractArraySection(text, "concepts")
      searchKeywords == extractArraySection(text, "searchKeywords")
  IN [success |-> TRUE,
      analysis |->
        [summary |-> IF Truthy(summary) THEN Get(summary)
                     ELSE "AI analysis completed based on your uploaded content.",
         explanation |-> IF Truthy(explanation) THEN Get(explanation)
                     ELSE Substring(text, 500) \o "...",
         keyPoints |-> IF IsSome(keyPoints) THEN Get(keyPoints)
                     ELSE <<"Content has been analyzed",
                            "Key information extracted",
                            "Study material processed">>,
         concepts |-> IF IsSome(concepts) THEN Get(concepts)
                     ELSE <<"Study Material", "Educational Content">>,
         searchKeywords |-> IF IsSome(searchKeywords) THEN Get(searchKeywords)
                     ELSE <<"study", "education", "learning", "tutorial">>]]

\* A faulty parser: an object with any field missing is replaced whole by
\* the defaults.
parseAnalysisResponseWholesale(ai) ==
  LET complete == /\ Truthy(ai.parsed.summary)
                  /\ Truthy(ai.parsed.explanation)
                  /\ IsSome(ai.parsed.keyPoints)
                  /\ IsSome(ai.parsed.concepts)
                  /\ IsSome(ai.parsed.searchKeywords)
  IN IF HasJsonSpan(ai.text) /\ ai.json = "object"
     THEN [success |-> TRUE,
           analysis |->
             IF complete
             THEN [summary |-> Get(ai.parsed.summary),
                   explanation |-> Get(ai.parsed.explanation),
                   keyPoints |-> Get(ai.parsed.keyPoints),
                   concepts |-> Get(ai.parsed.concepts),
                   searchKeywords |-> Get(ai.parsed.searchKeywords)]
             ELSE [summary |-> "Content analysis completed.",
                   explanation |-> "Analysis provided based on the uploaded content.",
                   keyPoints |-> <<"Analysis completed successfully">>,
                   concepts |-> <<"Study material analysis">>,
                   searchKeywords |-> <<"study", "education", "learning">>]]
     ELSE ScrapeAnalysis(ai.text)

\* GeminiService.parseAnalysisResponse
parseAnalysisResponse(ai) ==
  IF HasJsonSpan(ai.text) /\ ai.json = "object"
  THEN LET p == ai.parsed IN
       [success |-> TRUE,
        analysis |->
          [summary |-> IF Truthy(p.summary) THEN Get(p.summary)
                       ELSE "Content analysis completed.",
           explanation |-> IF Truthy(p.explanation) THEN Get(p.explanation)
                       ELSE "Analysis provided based on the uploaded content.",
           keyPoints |-> IF IsSome(p.keyPoints) THEN Get(p.keyPoints)
                       ELSE <<"Analysis completed successfully">>,
           concepts |-> IF IsSome(p.concepts) THEN Get(p.concepts)
                       ELSE <<"Study material analysis">>,
           searchKeywords |-> IF IsSome(p.searchKeywords) THEN Get(p.searchKeywords)
                       ELSE <<"study", "education", "learning">>]]
  ELSE ScrapeAnalysis(ai.text)

\* GeminiService.analyzeContent
analyzeContent(ai, extractedText, userPrompt) ==
  IF ai.mode = "responds" THEN parseAnalysisResponse(ai)
  ELSE fallbackAnalysis(extractedText, userPrompt)

\* GeminiService.fallbackQuizGeneration
fallbackQuizGeneration(extractedText, userPrompt) ==
  [success |-> TRUE,
   questions |-> <<
     [type |-> "short_answer",
      question |-> "What are the main topics covered in this study material?",
      options |-> None,
      correctAnswer |-> "Based on the uploaded content and the user request: "
                          \o userPrompt,
      explanation |-> "This question helps identify key themes and concepts from the material."],
     [type |-> "flashcard",
      question |-> "Key Concept Review",
      options |-> None,
      correctAnswer |-> "Review the main points from your uploaded study material",
      explanation |-> "Use this flashcard to test your memory of important concepts."],
     [type |-> "mcq",
      question |-> "What type of analysis was requested for this material?",
      options |-> Some(<<userPrompt, "Mathematical calculation",
                         "Language translation", "Image editing">>),
      correctAnswer |-> userPrompt,
      explanation |-> "This question relates to your specific request for content analysis."] >>]

\* the fixed list parseQuizResponse returns from its catch block
ParseFallbackQuestions == <<
  [type |-> "short_answer",
   question |-> "What are the main topics covered in this study material?",
   options |-> None,
   correctAnswer |-> "Based on the uploaded content, identify and explain the key topics and concepts.",
   explanation |-> "This question helps review the overall content and main themes."],
  [type |-> "flashcard",
   question |-> "Key Concept Review",
   options |-> None,
   correctAnswer |-> "Review and memorize the most important points from your study material",
   explanation |-> "Use this to test your memory of crucial information."],
  [type |-> "mcq",
   question |-> "Which of these best describes your study material?",
   options |-> Some(<<"Educational content requiring analysis", "Random text",
                      "Non-academic material", "Empty document">>),
   correctAnswer |-> "Educational content requiring analysis",
   explanation |-> "Your uploaded material appears to contain educational content suitable for study."] >>

\* q => q.question && q.correctAnswer && q.type
UsableQuestion(q) == Truthy(q.question) /\ Truthy(q.correctAnswer) /\ Truthy(q.type)

\* q => ({type, question, options, correctAnswer, explanation || default})
CleanQuestion(q) ==
  [type |-> Get(q.type), question |-> Get(q.question), options |-> q.options,
   correctAnswer |-> Get(q.correctAnswer),
   explanation |-> IF Truthy(q.explanation) THEN Get(q.explanation)
                   ELSE "No explanation provided"]

RECURSIVE MapClean(_)
MapClean(qs) ==
  IF qs = <<>> THEN <<>> ELSE <<CleanQuestion(qs[1])>> \o MapClean(Tail(qs))

\* A provider question is a record of optional fields; isNull marks a JSON
\* null element, on which q.question throws a TypeError.
\* GeminiService.parseQuizResponse
parseQuizResponse(ai) ==
  IF ai.json = "object"
       /\ (IsSome(ai.questions) =>
             \A i \in 1..Len(Get(ai.questions)) : ~Get(ai.questions)[i].isNull)
  THEN [success |-> TRUE,
        questions |-> IF IsSome(ai.questions)
                      THEN MapClean(SelectSeq(Get(ai.questions), UsableQuestion))
                      ELSE <<>>]
  ELSE [success |-> TRUE, questions |-> ParseFallbackQuestions]

\* A faulty quiz step: a provider that is down yields no question at all.
QuizOrNothing(ai, extractedText, userPrompt) ==
  IF ai.mode = "responds" THEN parseQuizResponse(ai)
  ELSE [success |-> FALSE, questions |-> <<>>]

\* GeminiService.generateQuizQuestions
generateQuizQuestions(ai, extractedText, userPrompt) ==
  IF ai.mode = "responds" THEN parseQuizResponse(ai)
  ELSE fallbackQuizGeneration(extractedText, userPrompt)

AnswerUnconfigured ==
  "I apologize, but the AI analysis service is not currently configured. Please set up the GEMINI_API_KEY environment variable to enable AI-powered chat functionality."

AnswerTrouble ==
  "I'm sorry, I'm having trouble processing your question right now. Please try again or rephrase your question."

\* `${msg.role.toUpperCase()}: ${msg.content}\n` for the last 5 messages
RenderLine(msg) ==
  (IF msg.role = "user" THEN "USER" ELSE "ASSISTANT") \o ": " \o msg.content \o "\n"

RECURSIVE RenderLines(_)
RenderLines(msgs) ==
  IF msgs = <<>> THEN <<>> ELSE <<RenderLine(msgs[1])>> \o RenderLines(Tail(msgs))

\* GeminiService.buildChatPrompt: the parts of the prompt that vary
buildChatPrompt(question, documentContent, chatHistory) ==
  [documentContent |-> documentContent,
   historyContext |-> IF Len(chatHistory) > 0
                      THEN RenderLines(SliceLast(chatHistory, 5)) ELSE <<>>,
   question |-> question]

\* GeminiService.answerQuestion.  ai.mode as above; ai.text is the
\* provider's text after trim().
answerQuestion(ai, question, documentContent, chatHistory) ==
  IF ai.mode = "unconfigured" THEN [success |-> TRUE, answer |-> AnswerUnconfigured]
  ELSE IF ai.mode = "throws" THEN [success |-> TRUE, answer |-> AnswerTrouble]
  ELSE [success |-> TRUE, answer |-> ai.text]

\* ---------------------------------------------------- video-search adapter
\* A provider search item:
\*   videoId, title, channelTitle, description, publishedAt   strings
\*   titleHas, channelHas, descHas   the words of the adapter's keyword
\*                                   lists that the lower-cased field includes
\*   thumbMedium, thumbDefault       optional thumbnail URLs
\* A statistics item: [id, viewCount].  The adapter's likeCount, duration
\* and embedUrl are computed from the same item, never read again and
\* dropped by the Document schema; they are left out.
\* One provider call: [outcome |-> "ok" | "throws", items |-> <<...>>].

EducationalIndicators ==
  {"tutorial", "lesson", "explained", "learn", "education",
   "academy", "university", "school", "course", "guide"}

TitleKeywords == {"tutorial", "lesson", "explained", "learn", "how to", "guide"}

ChannelMarkers == {"academy", "education", "university", "school"}

\* encodeURIComponent on the keywords the model uses: a space becomes %20,
\* unreserved characters stay
EncodeURIComponent(s) ==
  IF s = "cell biology" THEN "cell%20biology" ELSE s

\* thumbnails.medium?.url || thumbnails.default?.url ("" for undefined)
ThumbnailOf(item) ==
  IF Truthy(item.thumbMedium) THEN Get(item.thumbMedium)
  ELSE IF IsSome(item.thumbDefault) THEN Get(item.thumbDefault) ELSE ""

RECURSIVE FindStat(_, _)
\* statisticsData.find(stat => stat.id === video.id.videoId)
FindStat(stats, id) ==
  IF stats = <<>> THEN None
  ELSE IF stats[1].id = id THEN Some(stats[1]) ELSE FindStat(Tail(stats), id)

WithStats(item, stats) ==
  LET st == FindStat(stats, item.videoId) IN
  [title |-> item.title, videoId |-> item.videoId,
   channelTitle |-> item.channelTitle,
   viewCount |-> IF IsSome(st) THEN Get(st).viewCount ELSE 0,
   publishedAt |-> item.publishedAt,
   thumbnailUrl |-> ThumbnailOf(item),
   description |-> item.description,
   titleHas |-> item.titleHas, channelHas |-> item.channelHas,
   url |-> "https://www.youtube.com/watch?v=" \o item.videoId]

RECURSIVE MapWithStats(_, _)
MapWithStats(items, stats) ==
  IF items = <<>> THEN <<>>
  ELSE <<WithStats(items[1], stats)>> \o MapWithStats(Tail(items), stats)

\* description.substring(0, 150)
Substring150(text) == IF Len(text) > 150 THEN SubSeq(text, 1, 150) ELSE text

\* getEducationalVideos, lines 150-169: the fields of the plain search that
\* the model keeps, with the description cut to 150 characters (likeCount
\* and duration are read by nothing downstream and are left out)
Processed(item, stats) ==
  [WithStats(item, stats) EXCEPT !.description = Substring150(item.description)]

RECURSIVE MapProcessed(_, _)
MapProcessed(items, stats) ==
  IF items = <<>> THEN <<>>
  ELSE <<Processed(items[1], stats)>> \o MapProcessed(Tail(items), stats)

RECURSIVE InsertDesc(_, _)
\* the keyed element v inserted into the list s (sorted by non-increasing
\* key) after every element whose key is >= its own: Array.prototype.sort
\* is stable
InsertDesc(s, v) ==
  IF s = <<>> THEN <<v>>
  ELSE IF s[1].key >= v.key THEN <<s[1]>> \o InsertDesc(Tail(s), v)
       ELSE <<v>> \o s

RECURSIVE SortKeyed(_)
SortKeyed(s) ==
  IF s = <<>> THEN <<>>
  ELSE InsertDesc(SortKeyed(SubSeq(s, 1, Len(s) - 1)), Last(s))

\* arr.sort((a, b) => Key(b) - Key(a))
SortDesc(s, Key(_)) ==
  IF s = <<>> THEN <<>>
  ELSE LET keyed == [i \in 1..Len(s) |-> [key |-> Key(s[i]), val |-> s[i]]]
           sorted == SortKeyed(keyed)
       IN [i \in 1..Len(s) |-> sorted[i].val]

\* YouTubeService.getFallbackVideos; keywords[0] of an empty array is
\* undefined, which a template string prints as "undefined"
getFallbackVideos(keywords, now) ==
  LET searchTerm == IF keywords = <<>> THEN "undefined" ELSE keywords[1] IN
  << [title |-> "Learn about " \o searchTerm, videoId |-> "fallback",
      channelTitle |-> "Educational Content", viewCount |-> 0,
      publishedAt |-> "now:" \o ToString(now), thumbnailUrl |-> "",
      description |-> "YouTube API temporarily unavailable",
      titleHas |-> {}, channelHas |-> {},
      url |-> "https://www.youtube.com/results?search_query="
                \o EncodeURIComponent(searchTerm)] >>

ViewCountOf(v) == v.viewCount

\* A faulty search: the joined videos are returned in the provider's order.
searchVideosUnsorted(yt, keywords, now) ==
  IF yt.search.outcome = "throws"
  THEN [success |-> FALSE, videos |-> getFallbackVideos(keywords, now)]
  ELSE IF yt.search.items = <<>> THEN [success |-> TRUE, videos |-> <<>>]
  ELSE IF yt.stats.outcome = "throws"
  THEN [success |-> FALSE, videos |-> getFallbackVideos(keywords, now)]
  ELSE [success |-> TRUE,
        videos |-> MapWithStats(yt.search.items, yt.stats.items)]

\* YouTubeService.searchVideos; yt.search and yt.stats are its two calls
searchVideos(yt, keywords, now) ==
  IF yt.search.outcome = "throws"
  THEN [success |-> FALSE, videos |-> getFallbackVideos(keywords, now)]
  ELSE IF yt.search.items = <<>> THEN [success |-> TRUE, videos |-> <<>>]
  ELSE IF yt.stats.outcome = "throws"
  THEN [success |-> FALSE, videos |-> getFallbackVideos(keywords, now)]
  ELSE [success |-> TRUE,
        videos |-> SortDesc(MapWithStats(yt.search.items, yt.stats.items),
                            ViewCountOf)]

\* YouTubeService.calculateEducationalScore, in units of 1/10000
calculateEducationalScore(video) ==
  (IF video.viewCount < 1000000 THEN video.viewCount ELSE 1000000)
  + 200000 * Cardinality(video.titleHas \cap TitleKeywords)
  + (IF video.channelHas \cap ChannelMarkers # {} THEN 300000 ELSE 0)

IsEducational(item) ==
  (item.titleHas \cup item.channelHas \cup item.descHas)
     \cap EducationalIndicators # {}

\* A faulty educational search: a failed call is answered with the
\* placeholder at once.
getEducationalVideosNoRetry(yt, keywords, now) ==
  IF yt.edu.search.outcome = "throws"
  THEN [success |-> FALSE, videos |-> getFallbackVideos(keywords, now)]
  ELSE LET educationalVideos == SelectSeq(yt.edu.search.items, IsEducational) IN
       IF educationalVideos = <<>> THEN [success |-> TRUE, videos |-> <<>>]
       ELSE IF yt.edu.stats.outcome = "throws"
       THEN [success |-> FALSE, videos |-> getFallbackVideos(keywords, now)]
       ELSE [success |-> TRUE,
             videos |-> SliceFirst(
                 SortDesc(MapProcessed(educationalVideos, yt.edu.stats.items),
                          calculateEducationalScore), 8)]

\* YouTubeService.getEducationalVideos; yt.edu holds its two calls and
\* yt.plain those of the searchVideos it falls back to
getEducationalVideos(yt, keywords, now) ==
  IF yt.edu.search.outcome = "throws" THEN searchVideos(yt.plain, keywords, now)
  ELSE LET educationalVideos == SelectSeq(yt.edu.search.items, IsEducational) IN
       IF educationalVideos = <<>> THEN [success |-> TRUE, videos |-> <<>>]
       ELSE IF yt.edu.stats.outcome = "throws"
       THEN searchVideos(yt.plain, keywords, now)
       ELSE [success |-> TRUE,
             videos |-> SliceFirst(
                 SortDesc(MapProcessed(educationalVideos, yt.edu.stats.items),
                          calculateEducationalScore), 8)]

\* ------------------------------------------------------ response envelope
\* ResponseFormatter.formatResponse(success, message, data = null,
\* error = null); data and error are optional values
formatResponse(success, message, data, error, now) ==
  [success |-> success, message |-> message, timestamp |-> now,
   data |-> data,
   error |-> IF IsSome(error) /\ ~success THEN error ELSE None]

\* ------------------------------------------------- Document / ChatHistory
QuizTypes == {"mcq", "short_answer", "flashcard"}

\* Mongoose casts a question to the quizQuestions sub-schema: an undefined
\* options becomes the empty array
CastQuestion(q) ==
  [type |-> q.type, question |-> q.question,
   options |-> IF IsSome(q.options) THEN Get(q.options) ELSE <<>>,
   correctAnswer |-> q.correctAnswer, explanation |-> q.explanation]

\* Mongoose casts a video to the youtubeVideos sub-schema: paths that are
\* not in the schema are dropped
CastVideo(v) ==
  [title |-> v.title, videoId |-> v.videoId, channelTitle |-> v.channelTitle,
   viewCount |-> v.viewCount, publishedAt |-> v.publishedAt,
   thumbnailUrl |-> v.thumbnailUrl]

CastQuestions(qs) == [i \in 1..Len(qs) |-> CastQuestion(qs[i])]
CastVideos(vs) == [i \in 1..Len(vs) |-> CastVideo(vs[i])]

\* validation run by save(): required paths and the enum of question types
ValidQuestions(qs) ==
  \A i \in 1..Len(qs) : qs[i].type \in QuizTypes /\ qs[i].question # ""

\* the grave accent Mongoose quotes paths and values with, written by its
\* code point
Grave == "<U+0060>"

\* the ValidatorError of each invalid path of one question, "path: message"
QuestionErrorsAt(q, index) ==
  LET path(field) == "quizQuestions." \o ToString(index) \o "." \o field IN
  (IF q.type = ""
   THEN << path("type") \o ": Path " \o Grave \o "type" \o Grave \o " is required." >>
   ELSE IF q.type \notin QuizTypes
   THEN << path("type") \o ": " \o Grave \o q.type \o Grave
             \o " is not a valid enum value for path "
             \o Grave \o "type" \o Grave \o "." >>
   ELSE << >>)
  \o (IF q.question = ""
      THEN << path("question") \o ": Path " \o Grave \o "question" \o Grave
                \o " is required." >>
      ELSE << >>)

RECURSIVE QuestionErrorsFrom(_, _)
QuestionErrorsFrom(qs, i) ==
  IF i > Len(qs) THEN << >>
  ELSE QuestionErrorsAt(qs[i], i - 1) \o QuestionErrorsFrom(qs, i + 1)

\* the ValidatorErrors of a quizQuestions array, in path order
QuestionErrors(qs) == QuestionErrorsFrom(qs, 1)

\* ValidationError.message
ValidationMessage(model, errors) ==
  model \o " validation failed: " \o JoinWith(errors, ", ")

\* new Document(data) for the data object the upload builds; extractedText
\* is optional in the schema; version is the versionKey __v
NewDocument(id, data, now) ==
  [id |-> id,
   originalImagePath |-> data.originalImagePath,
   extractedText |-> data.extractedText,
   userPrompt |-> data.userPrompt,
   analysis |-> data.analysis,
   quizQuestions |-> CastQuestions(data.quizQuestions),
   youtubeVideos |-> CastVideos(data.youtubeVideos),
   createdAt |-> now, updatedAt |-> now, version |-> 0]

\* chat messages: content is required, so an empty string fails validation
ValidMessages(msgs) == \A i \in 1..Len(msgs) : msgs[i].content # ""

RECURSIVE MessageErrorsFrom(_, _)
MessageErrorsFrom(msgs, i) ==
  IF i > Len(msgs) THEN << >>
  ELSE (IF msgs[i].content = ""
        THEN << "messages." \o ToString(i - 1)
                  \o ".content: Path " \o Grave \o "content" \o Grave
                  \o " is required." >>
        ELSE << >>)
       \o MessageErrorsFrom(msgs, i + 1)

\* the ValidatorErrors of a messages array, in path order
MessageErrors(msgs) == MessageErrorsFrom(msgs, 1)

\* ----------------------------------------------------------------- state
VARIABLES
  documents,  \* Document collection: ObjectId -> record
  chats,      \* ChatHistory collection in insertion order; _id is the index
  files,      \* image files in the upload directory
  now,        \* the clock
  uploads,    \* upload requests received so far
  up,         \* the upload requests in flight, by slot
  sends,      \* the send requests in flight, by slot
  resp,       \* the last response sent, with the request it answers
  env,        \* process.env.NODE_ENV, fixed when the server starts
  created,    \* Documents constructed so far
  work        \* the delete and regenerate requests in flight, by slot

vars ==
  <<documents, chats, files, now, uploads, up, sends, resp, env, created, work>>

IdleUpload == [pc |-> "idle"]
IdleSend == [pc |-> "idle"]
IdleWork == [pc |-> "idle"]
\* the n-th upload request received runs in slot n
UploadSlots == 1..MaxUploads
SendSlots == 1..MaxSends
WorkSlots == 1..MaxWork
IdleUploads == [u \in UploadSlots |-> IdleUpload]

NoResponse == [op |-> "none"]

\* res.status(status).json(body) for request `op` with parameters `req`;
\* calls lists the adapter calls the request made
Respond(op, req, status, body, calls) ==
  [op |-> op, req |-> req, status |-> status, body |-> body, calls |-> calls]

Init ==
  /\ documents = <<>>
  /\ chats = <<>>
  /\ files = {}
  /\ now = 1
  /\ uploads = 0
  /\ up = IdleUploads
  /\ sends = [s \in SendSlots |-> IdleSend]
  /\ resp = NoResponse
  /\ env = "production"
  /\ created = 0
  /\ work = [w \in WorkSlots |-> IdleWork]

\* Document.findById(id): throws a CastError on a malformed id
IdMissing(id) == id < 0
IdMalformed(id) == id = 0
DocExists(id) == id \in DOMAIN documents

\* identifiers a request may carry: missing, malformed, every id the store
\* has handed out or could, and one more
RequestIds == (0 - 1)..(MaxUploads + 1)

\* the well-formed identifiers the store hands out in a behaviour; each is
\* unknown to the store before its upload and after its delete
DocumentIds == 1..MaxUploads

\* ---------------------------------------------------- provider behaviours
\* The inputs of the model: what each external provider does when called.
OcrDown ==
  [configured |-> FALSE, doc |-> "throws", paragraphs |-> <<>>,
   fullText |-> FALSE, text |-> "throws", description |-> <<>>, conf |-> 0]

\* two paragraphs: "Cells divide." and "Light"
OcrPages ==
  [configured |-> TRUE, doc |-> "pages",
   paragraphs |-> << << <<"Cells">>, <<"divide", ".">> >>, << <<"Light">> >> >>,
   fullText |-> TRUE, text |-> "found", description |-> <<"Cells">>, conf |-> 0]

\* a fullTextAnnotation whose pages hold no paragraph
OcrEmptyPages ==
  [configured |-> TRUE, doc |-> "pages", paragraphs |-> <<>>,
   fullText |-> FALSE, text |-> "found", description |-> <<"Cells">>, conf |-> 0]

\* no fullTextAnnotation; plain detection finds text with repeated blanks
OcrPlain ==
  [configured |-> TRUE, doc |-> "none", paragraphs |-> <<>>,
   fullText |-> FALSE, text |-> "found",
   description |-> <<" ", "Cells", " ", " ", "divide", ".", "\n", "\n", "Light", "\n">>,
   conf |-> 6]

\* both detections fail
OcrNothing ==
  [configured |-> TRUE, doc |-> "throws", paragraphs |-> <<>>,
   fullText |-> FALSE, text |-> "none", description |-> <<>>, conf |-> 0]

OcrWorlds == {OcrDown, OcrPages, OcrEmptyPages, OcrPlain, OcrNothing}

NoFields ==
  [summary |-> None, explanation |-> None, keyPoints |-> None,
   concepts |-> None, searchKeywords |-> None]

AiDown ==
  [mode |-> "unconfigured", json |-> "unparseable", parsed |-> NoFields,
   questions |-> None, text |-> ""]

AiThrows == [AiDown EXCEPT !.mode = "throws"]

AnalysisFull ==
  [AiDown EXCEPT !.mode = "responds", !.json = "object",
     !.text = "{\"summary\": \"Cells divide by mitosis.\", "
                \o "\"explanation\": \"Mitosis has four phases.\", "
                \o "\"keyPoints\": [\"prophase\", \"metaphase\"], "
                \o "\"concepts\": [\"mitosis\"], "
                \o "\"searchKeywords\": [\"cell biology\", \"mitosis\"]}",
     !.parsed = [summary |-> Some("Cells divide by mitosis."),
                 explanation |-> Some("Mitosis has four phases."),
                 keyPoints |-> Some(<<"prophase", "metaphase">>),
                 concepts |-> Some(<<"mitosis">>),
                 searchKeywords |-> Some(<<"cell biology", "mitosis">>)]]

\* an object with an empty summary, keyPoints that is not an array, no
\* concepts and an empty searchKeywords array
AnalysisPartial ==
  [AiDown EXCEPT !.mode = "responds", !.json = "object",
     !.text = "{\"summary\": \"\", "
                \o "\"explanation\": \"Mitosis has four phases.\", "
                \o "\"keyPoints\": \"prophase\", \"searchKeywords\": []}",
     !.parsed = [summary |-> Some(""),
                 explanation |-> Some("Mitosis has four phases."),
                 keyPoints |-> None,
                 concepts |-> None,
                 searchKeywords |-> Some(<<>>)]]

\* the provider answers with text that JSON.parse does not accept
TextResponse(text) ==
  [AiDown EXCEPT !.mode = "responds", !.json = "unparseable", !.text = text]

\* prose around a broken object: only "summary" can be scraped
AnalysisProse ==
  TextResponse("Here is the analysis: "
                 \o "{\"summary\": \"Cells divide.\", \"keyPoints\": [}")

AnalysisWorlds == {AiDown, AiThrows, AnalysisFull, AnalysisPartial, AnalysisProse}

RawQuestion(type, question, options, correctAnswer, explanation) ==
  [isNull |-> FALSE, type |-> type, question |-> question, options |-> options,
   correctAnswer |-> correctAnswer, explanation |-> explanation]

QMcq ==
  RawQuestion(Some("mcq"), Some("What divides?"), Some(<<"Cells", "Rocks">>),
              Some("Cells"), Some("Cells divide."))
QShort ==
  RawQuestion(Some("short_answer"), Some("Name a phase."), None,
              Some("prophase"), None)
QNoAnswer ==
  RawQuestion(Some("flashcard"), Some("Mitosis"), None, None, None)
QOtherType ==
  RawQuestion(Some("true_false"), Some("Cells divide."), None, Some("true"), None)
QNull ==
  [RawQuestion(None, None, None, None, None) EXCEPT !.isNull = TRUE]

QuizWith(questions) ==
  [AiDown EXCEPT !.mode = "responds", !.json = "object", !.questions = questions]

QuizWorlds ==
  {AiDown, AiThrows,
   QuizWith(Some(<<QMcq, QNoAnswer, QShort>>)),
   QuizWith(Some(<<QNoAnswer>>)),
   QuizWith(None),
   QuizWith(Some(<<QMcq, QNull>>)),
   QuizWith(Some(<<QOtherType>>)),
   [AiDown EXCEPT !.mode = "responds", !.json = "unparseable"]}

Call(outcome, items) == [outcome |-> outcome, items |-> items]

\* titleHas, channelHas and descHas are the keyword-list words that title,
\* channelTitle and description contain
Item(videoId, title, channelTitle, description, titleHas, channelHas, descHas) ==
  [videoId |-> videoId, title |-> title, channelTitle |-> channelTitle,
   description |-> description, titleHas |-> titleHas,
   channelHas |-> channelHas, descHas |-> descHas,
   publishedAt |-> "2024-01-01T00:00:00Z",
   thumbMedium |-> Some("https://i.ytimg.com/" \o videoId),
   thumbDefault |-> None]

ItemA ==
  Item("a", "Mitosis tutorial", "Bio Academy", "about Mitosis tutorial",
       {"tutorial"}, {"academy"}, {"tutorial"})
ItemB ==
  Item("b", "Cell division", "Clips", "a lesson on Cell division",
       {}, {}, {"lesson"})
ItemC == Item("c", "Funny cats", "Clips", "about Funny cats", {}, {}, {})

\* 40 characters
Forty == "the cell cycle and its phases in detail "

\* an item whose description has 160 characters
ItemLong ==
  Item("d", "Mitosis lesson", "Clips", Forty \o Forty \o Forty \o Forty,
       {"lesson"}, {}, {})

StatsLong == Call("ok", << [id |-> "d", viewCount |-> 500] >>)

CallFails == Call("throws", <<>>)

SearchABC == Call("ok", <<ItemA, ItemB, ItemC>>)

StatsABC ==
  Call("ok", << [id |-> "b", viewCount |-> 50000], [id |-> "a", viewCount |-> 500] >>)

Provider(search, stats) == [search |-> search, stats |-> stats]

YtDown == [edu |-> Provider(CallFails, CallFails), plain |-> Provider(CallFails, CallFails)]
YtUp == [edu |-> Provider(SearchABC, StatsABC), plain |-> Provider(SearchABC, StatsABC)]
\* the statistics call of the educational search fails, plain search works
YtEduStatsFail ==
  [edu |-> Provider(SearchABC, CallFails), plain |-> Provider(SearchABC, StatsABC)]
\* the search finds nothing educational
YtNothing ==
  [edu |-> Provider(Call("ok", <<ItemC>>), StatsABC), plain |-> Provider(SearchABC, StatsABC)]

VideoWorlds == {YtDown, YtUp, YtEduStatsFail, YtNothing}

Prompts == {"", "explain photosynthesis"}

\* What the providers do during one upload request.
World(ocr, analysis, quiz, video) ==
  [ocr |-> ocr, analysis |-> analysis, quiz |-> quiz, video |-> video]

QuizGood == QuizWith(Some(<<QMcq, QNoAnswer, QShort>>))
QuizUnparseable == [AiDown EXCEPT !.mode = "responds", !.json = "unparseable"]

\* every combination of provider availability
AvailabilityWorlds ==
  {World(ocr, ai[1], ai[2], video) :
     ocr \in {OcrPages, OcrDown},
     ai \in {<<AnalysisFull, QuizGood>>, <<AiDown, AiDown>>},
     video \in {YtUp, YtDown}}

\* every other provider behaviour, one provider at a time
VariantWorlds ==
  {World(ocr, AiDown, AiDown, YtUp) : ocr \in OcrWorlds}
    \cup {World(OcrPages, ai, QuizGood, YtUp) : ai \in AnalysisWorlds}
    \cup {World(OcrPages, AnalysisFull, ai, YtUp) : ai \in QuizWorlds}
    \cup {World(OcrPages, AnalysisFull, QuizGood, video) : video \in VideoWorlds}

UploadWorlds == AvailabilityWorlds \cup VariantWorlds

\* the behaviour of the uploads that only set the scene for other requests
QuietWorld == World(OcrPages, AiDown, AiDown, YtDown)

\* where the upload middleware stores the n-th uploaded file
UploadPath(n) == <<"uploads", "/", "image-" \o ToString(n), ".", "png">>

\* ------------------------------------------------------- upload pipeline
\* Each await of uploadAndAnalyze ends one step: other requests, further
\* uploads included, run between the steps.
\* fails upload u with an uncaught exception (the catch block of
\* uploadAndAnalyze)
UploadThrows(u, calls, message) ==
  /\ resp' = Respond("upload", [file |-> TRUE, prompt |-> up[u].userPrompt], 500,
                     formatResponse(FALSE, "Internal server error", None,
                                    Some(message), now), calls)
  /\ up' = [up EXCEPT ![u] = IdleUpload]

\* uploadAndAnalyze, lines 10-22: the middleware has stored the file (if
\* any) before the handler runs
UploadValidate(hasFile, prompt, world) ==
  /\ uploads < MaxUploads
  /\ uploads' = uploads + 1
  /\ files' = IF hasFile THEN files \cup {UploadPath(uploads + 1)} ELSE files
  /\ IF ~hasFile
     THEN /\ resp' = Respond("upload", [file |-> hasFile, prompt |-> prompt], 400,
                       formatResponse(FALSE, "No image file provided", None, None, now),
                       <<>>)
          /\ up' = up
     ELSE IF prompt = ""
     THEN /\ resp' = Respond("upload", [file |-> hasFile, prompt |-> prompt], 400,
                       formatResponse(FALSE, "User prompt is required", None, None, now),
                       <<>>)
          /\ up' = up
     ELSE /\ up' = [up EXCEPT ![uploads + 1] =
                      [pc |-> "ocr", world |-> world,
                       imagePath |-> UploadPath(uploads + 1),
                       userPrompt |-> prompt, calls |-> <<>>]]
          /\ resp' = resp
  /\ UNCHANGED <<documents, chats, now, sends, env, created, work>>

\* const extractedText = visionResult.structuredText || visionResult.extractedText
ExtractedTextOf(visionResult) ==
  OrElse(visionResult.structuredText, visionResult.extractedText)

\* uploadAndAnalyze, lines 24-32
UploadOcr(u) ==
  /\ up[u].pc = "ocr"
  /\ LET r == up[u]
         visionResult == detectDocumentStructure(r.world.ocr, r.imagePath)
         extractedText == ExtractedTextOf(visionResult)
         calls == Append(r.calls, "ocr")
     IN IF ~visionResult.success
        THEN /\ resp' = Respond("upload", [file |-> TRUE, prompt |-> r.userPrompt], 500,
                          formatResponse(FALSE, "Failed to extract text from image",
                                         None, None, now), calls)
             /\ up' = [up EXCEPT ![u] = IdleUpload]
        ELSE IF ~IsSome(extractedText)
        THEN \* extractedText.length on undefined
             UploadThrows(u, calls,
                          "Cannot read properties of undefined (reading 'length')")
        ELSE /\ up' = [up EXCEPT ![u] =
                         [pc |-> "analyze", world |-> r.world, imagePath |-> r.imagePath,
                          userPrompt |-> r.userPrompt, calls |-> calls,
                          visionResult |-> visionResult,
                          extractedText |-> Get(extractedText)]]
             /\ resp' = resp
  /\ UNCHANGED <<documents, chats, files, now, uploads, sends, env, created, work>>

\* uploadAndAnalyze, lines 34-39
UploadAnalyze(u) ==
  /\ up[u].pc = "analyze"
  /\ LET r == up[u]
         analysisResult == analyzeContent(r.world.analysis, r.extractedText,
                                          r.userPrompt)
         calls == Append(r.calls, "analyze")
     IN IF ~analysisResult.success
        THEN /\ resp' = Respond("upload", [file |-> TRUE, prompt |-> r.userPrompt], 500,
                          formatResponse(FALSE, "Failed to analyze content",
                                         None, None, now), calls)
             /\ up' = [up EXCEPT ![u] = IdleUpload]
        ELSE /\ up' = [up EXCEPT ![u] =
                         [pc |-> "quiz", world |-> r.world, imagePath |-> r.imagePath,
                          userPrompt |-> r.userPrompt, calls |-> calls,
                          visionResult |-> r.visionResult,
                          extractedText |-> r.extractedText,
                          analysisResult |-> analysisResult]]
             /\ resp' = resp
  /\ UNCHANGED <<documents, chats, files, now, uploads, sends, env, created, work>>

\* A faulty quiz step: the adapter is called a second time.
UploadQuizTwice(u) ==
  /\ up[u].pc = "quiz"
  /\ LET r == up[u] IN
     up' = [up EXCEPT ![u] =
              [pc |-> "video", world |-> r.world, imagePath |-> r.imagePath,
               userPrompt |-> r.userPrompt, calls |-> r.calls \o <<"quiz", "quiz">>,
               visionResult |-> r.visionResult,
               extractedText |-> r.extractedText,
               analysisResult |-> r.analysisResult,
               quizResult |-> generateQuizQuestions(r.world.quiz, r.extractedText,
                                                   r.userPrompt)]]
  /\ UNCHANGED <<documents, chats, files, now, uploads, sends, resp, env, created, work>>

\* uploadAndAnalyze, lines 41-42
UploadQuiz(u) ==
  /\ up[u].pc = "quiz"
  /\ LET r == up[u] IN
     up' = [up EXCEPT ![u] =
              [pc |-> "video", world |-> r.world, imagePath |-> r.imagePath,
               userPrompt |-> r.userPrompt, calls |-> Append(r.calls, "quiz"),
               visionResult |-> r.visionResult,
               extractedText |-> r.extractedText,
               analysisResult |-> r.analysisResult,
               quizResult |-> generateQuizQuestions(r.world.quiz, r.extractedText,
                                                   r.userPrompt)]]
  /\ UNCHANGED <<documents, chats, files, now, uploads, sends, resp, env, created, work>>

\* uploadAndAnalyze, lines 49-60: the object handed to new Document.  It has
\* no extractedText key.
DocumentData(r) ==
  [originalImagePath |-> r.imagePath,
   extractedText |-> None,
   userPrompt |-> r.userPrompt,
   analysis |-> [summary |-> r.analysisResult.analysis.summary,
                 explanation |-> r.analysisResult.analysis.explanation,
                 keyPoints |-> r.analysisResult.analysis.keyPoints,
                 concepts |-> r.analysisResult.analysis.concepts],
   quizQuestions |-> r.quizResult.questions,
   youtubeVideos |-> r.youtubeResult.videos]

\* A faulty payload: the adapters' results as they were handed to the model.
UploadPayloadRaw(document, r) ==
  [documentId |-> document.id, analysis |-> document.analysis,
   quizQuestions |-> r.quizResult.questions,
   youtubeVideos |-> r.youtubeResult.videos,
   createdAt |-> document.createdAt]

\* uploadAndAnalyze, lines 68-74: the payload is read from the Mongoose
\* document, not from the request's results r
UploadPayload(document, r) ==
  [documentId |-> document.id, analysis |-> document.analysis,
   quizQuestions |-> document.quizQuestions,
   youtubeVideos |-> document.youtubeVideos,
   createdAt |-> document.createdAt]

\* the ObjectId of the next Document constructed
NextDocumentId == created + 1

\* uploadAndAnalyze, lines 44-63, from the answer of getEducationalVideos up
\* to the wait in document.save(): an array is truthy, so the default pair
\* is used only for a missing searchKeywords.  new Document fixes _id and
\* createdAt, the pre-save hook updatedAt, and validation runs before
\* anything is sent to the store.
UploadVideo(u) ==
  /\ up[u].pc = "video"
  /\ created' = created + 1
  /\ LET r == up[u]
         searchKeywords == r.analysisResult.analysis.searchKeywords
         youtubeResult == getEducationalVideos(r.world.video, searchKeywords, now)
         results == [analysisResult |-> r.analysisResult,
                     quizResult |-> r.quizResult,
                     youtubeResult |-> youtubeResult,
                     imagePath |-> r.imagePath, userPrompt |-> r.userPrompt]
         document == NewDocument(NextDocumentId, DocumentData(results), now)
     IN IF ~ValidQuestions(document.quizQuestions)
        THEN UploadThrows(u, r.calls \o <<"video", "persist">>,
                  ValidationMessage("Document",
                                    QuestionErrors(document.quizQuestions)))
        ELSE /\ up' = [up EXCEPT ![u] =
                         [pc |-> "persist", world |-> r.world,
                          imagePath |-> r.imagePath,
                          userPrompt |-> r.userPrompt,
                          calls |-> Append(r.calls, "video"),
                          visionResult |-> r.visionResult,
                          extractedText |-> r.extractedText,
                          analysisResult |-> r.analysisResult,
                          quizResult |-> r.quizResult,
                          youtubeResult |-> youtubeResult,
                          document |-> document]]
             /\ resp' = resp
  /\ UNCHANGED <<documents, chats, files, now, uploads, sends, env, work>>

\* uploadAndAnalyze, lines 63-76: the insert of document.save() is applied
\* and the request answered
UploadPersist(u) ==
  /\ up[u].pc = "persist"
  /\ now < MaxClock
  /\ LET r == up[u]
         document == r.document
     IN /\ documents' = [d \in DOMAIN documents \cup {document.id} |->
                           IF d = document.id THEN document ELSE documents[d]]
        /\ now' = now + 1
        /\ resp' = Respond("upload", [file |-> TRUE, prompt |-> r.userPrompt], 200,
                     formatResponse(TRUE, "Document processed successfully",
                                    Some(UploadPayload(document, r)), None, now),
                     Append(r.calls, "persist"))
        /\ up' = [up EXCEPT ![u] = IdleUpload]
  /\ UNCHANGED <<chats, files, uploads, sends, env, created, work>>

\* ---------------------------------------------------- document handlers
\* the 400 / 404 answers shared by every handler that looks a document up
IdRequired(op, req) ==
  Respond(op, req, 400, formatResponse(FALSE, "Document ID is required", None, None, now), <<>>)

InvalidId(op, req) ==
  Respond(op, req, 400, formatResponse(FALSE, "Invalid document ID format", None, None, now), <<>>)

\* A faulty lookup: an absent document is answered like a malformed id.
NotFoundAsInvalid(op, req) ==
  Respond(op, req, 400, formatResponse(FALSE, "Invalid document ID format", None, None, now), <<>>)

NotFound(op, req) ==
  Respond(op, req, 404, formatResponse(FALSE, "Document not found", None, None, now), <<>>)

\* the response of a lookup that does not reach the handler's own work
LookupFailure(op, req, id) ==
  IF IdMissing(id) THEN IdRequired(op, req)
  ELSE IF IdMalformed(id) THEN InvalidId(op, req)
  ELSE NotFound(op, req)

\* DocumentController.getDocumentById
getDocumentById(id) ==
  /\ resp' =
       IF IdMissing(id) \/ IdMalformed(id) \/ ~DocExists(id)
       THEN LookupFailure("get", [id |-> id], id)
       ELSE LET document == documents[id] IN
            Respond("get", [id |-> id], 200,
              formatResponse(TRUE, "Document retrieved successfully",
                Some([id |-> document.id, userPrompt |-> document.userPrompt,
                      analysis |-> document.analysis,
                      quizQuestions |-> document.quizQuestions,
                      youtubeVideos |-> document.youtubeVideos,
                      createdAt |-> document.createdAt,
                      updatedAt |-> document.updatedAt]), None, now), <<>>)
  /\ UNCHANGED <<documents, chats, files, now, uploads, up, sends, env, created, work>>

\* deleteDocument, lines 162-172: up to the answer of Document.findById
DeleteLoad(w, id) ==
  /\ work[w].pc = "idle"
  /\ IF IdMissing(id) \/ IdMalformed(id) \/ ~DocExists(id)
     THEN /\ resp' = LookupFailure("delete", [id |-> id], id)
          /\ work' = work
     ELSE /\ work' = [work EXCEPT ![w] =
                        [pc |-> "delete", id |-> id, document |-> documents[id]]]
          /\ resp' = resp
  /\ UNCHANGED <<documents, chats, files, now, uploads, up, sends, env, created>>

\* A faulty delete: the chat records of the document are removed with it.
DeleteRemoveCascades(w, unlinkThrows) ==
  /\ work[w].pc = "delete"
  /\ LET id == work[w].id
         document == work[w].document
     IN /\ documents' = [d \in DOMAIN documents \ {id} |-> documents[d]]
        /\ chats' = SelectSeq(chats, LAMBDA c : c.documentId # id)
        /\ IF document.originalImagePath \in files /\ unlinkThrows
           THEN /\ files' = files
                /\ resp' = Respond("delete", [id |-> id], 500,
                     formatResponse(FALSE, "Failed to delete document", None, None, now),
                     <<>>)
           ELSE /\ files' = files \ {document.originalImagePath}
                /\ resp' = Respond("delete", [id |-> id], 200,
                     formatResponse(TRUE, "Document deleted successfully", None, None, now),
                     <<>>)
  /\ work' = [work EXCEPT ![w] = IdleWork]
  /\ UNCHANGED <<now, uploads, up, sends, env, created>>

\* deleteDocument, lines 174-193: Document.findByIdAndDelete, whose result
\* is not read, and the image file; unlinkThrows: fs.unlinkSync fails
DeleteRemove(w, unlinkThrows) ==
  /\ work[w].pc = "delete"
  /\ LET id == work[w].id
         document == work[w].document
     IN /\ documents' = [d \in DOMAIN documents \ {id} |-> documents[d]]
        /\ IF document.originalImagePath \in files /\ unlinkThrows
           THEN /\ files' = files
                /\ resp' = Respond("delete", [id |-> id], 500,
                     formatResponse(FALSE, "Failed to delete document", None, None, now),
                     <<>>)
           ELSE /\ files' = files \ {document.originalImagePath}
                /\ resp' = Respond("delete", [id |-> id], 200,
                     formatResponse(TRUE, "Document deleted successfully", None, None, now),
                     <<>>)
  /\ work' = [work EXCEPT ![w] = IdleWork]
  /\ UNCHANGED <<chats, now, uploads, up, sends, env, created>>

\* one adapter call with the arguments it was given
QuizCall(extractedText, userPrompt) ==
  [fn |-> "generateQuizQuestions", extractedText |-> extractedText,
   userPrompt |-> userPrompt]

\* A faulty regeneration: the document is stamped as if created anew.
RestampedWithNewQuestions(document, questions, time) ==
  [document EXCEPT !.quizQuestions = CastQuestions(questions),
                   !.updatedAt = time, !.createdAt = time]

\* DocumentController.regenerateQuestions, lines 216-218
WithNewQuestions(document, questions, time) ==
  [document EXCEPT !.quizQuestions = CastQuestions(questions),
                   !.updatedAt = time]

\* the failure answer of regenerateQuestions: its catch block answers every
\* exception, a CastError included, with 500
RegenerateFails(id, calls) ==
  Respond("regenerate", [id |-> id], 500,
          formatResponse(FALSE, "Failed to regenerate questions", None, None, now),
          calls)

\* regenerateQuestions, lines 198-208: up to the answer of Document.findById
RegenerateLoad(w, id) ==
  /\ work[w].pc = "idle"
  /\ IF IdMissing(id)
     THEN /\ resp' = IdRequired("regenerate", [id |-> id])
          /\ work' = work
     ELSE IF IdMalformed(id)
     THEN /\ resp' = RegenerateFails(id, <<>>)
          /\ work' = work
     ELSE IF ~DocExists(id)
     THEN /\ resp' = NotFound("regenerate", [id |-> id])
          /\ work' = work
     ELSE /\ work' = [work EXCEPT ![w] =
                        [pc |-> "quiz", id |-> id, document |-> documents[id]]]
          /\ resp' = resp
  /\ UNCHANGED <<documents, chats, files, now, uploads, up, sends, env, created>>

\* document.save() of a Document that was loaded: the array that was set is
\* written where _id and the version that was loaded match, and the version
\* is incremented; no match is a VersionError or DocumentNotFoundError.
\* Setting an empty array to an empty array modifies nothing, and then only
\* updatedAt is written, where _id matches.
SaveMatches(document) ==
  /\ DocExists(document.id)
  /\ \/ documents[document.id].version = document.version
     \/ document.loadedQuestions = <<>> /\ document.quizQuestions = <<>>

\* regenerateQuestions, lines 210-219, from the answer of the adapter up to
\* the wait in document.save(): the new questions and updatedAt are set and
\* the document validated
RegenerateQuiz(w, ai) ==
  /\ work[w].pc = "quiz"
  /\ LET id == work[w].id
         document == work[w].document
         quizResult == generateQuizQuestions(ai, document.extractedText,
                                             document.userPrompt)
         calls == <<QuizCall(document.extractedText, document.userPrompt)>>
         updated == WithNewQuestions(document, quizResult.questions, now)
     IN IF ~ValidQuestions(updated.quizQuestions)
        THEN /\ resp' = RegenerateFails(id, calls)
             /\ work' = [work EXCEPT ![w] = IdleWork]
        ELSE /\ work' = [work EXCEPT ![w] =
                           [pc |-> "save", id |-> id, document |-> document,
                            updated |-> updated, calls |-> calls]]
             /\ resp' = resp
  /\ UNCHANGED <<documents, chats, files, now, uploads, up, sends, env, created>>

\* regenerateQuestions, lines 219-228: the update of document.save() is
\* applied, or fails, and the request answered.  The update writes the
\* paths that were modified.
RegenerateSave(w) ==
  /\ work[w].pc = "save"
  /\ LET id == work[w].id
         calls == work[w].calls
         updated == work[w].updated
         unmodified == work[w].document.quizQuestions = <<>>
                         /\ updated.quizQuestions = <<>>
         written == {f \in DOMAIN updated \ {"quizQuestions", "version"} :
                       updated[f] # work[w].document[f]}
                      \cup (IF unmodified THEN {} ELSE {"quizQuestions"})
     IN IF ~SaveMatches([id |-> id, version |-> updated.version,
                         loadedQuestions |-> work[w].document.quizQuestions,
                         quizQuestions |-> updated.quizQuestions])
        THEN /\ resp' = RegenerateFails(id, calls)
             /\ UNCHANGED <<documents, now>>
        ELSE /\ now < MaxClock
             /\ documents' =
                  [documents EXCEPT ![id] =
                     [f \in DOMAIN @ |->
                        IF f \in written THEN updated[f]
                        ELSE IF f = "version" /\ ~unmodified THEN @[f] + 1
                        ELSE @[f]]]
             /\ now' = now + 1
             /\ resp' = Respond("regenerate", [id |-> id], 200,
                  formatResponse(TRUE, "Quiz questions regenerated successfully",
                    Some([quizQuestions |-> updated.quizQuestions]), None, now),
                  calls)
  /\ work' = [work EXCEPT ![w] = IdleWork]
  /\ UNCHANGED <<chats, files, uploads, up, sends, env, created>>

\* -------------------------------------------------------- chat handlers
\* A message of a request body is a token text, so that trim() is computed.
Messages == {<<>>, <<" ", " ">>, <<" ", "Why", "?">>}

Answer(text) == [AiDown EXCEPT !.mode = "responds", !.text = text]

ChatWorlds == {AiDown, Answer("Mitosis is cell division."), Answer("")}

RECURSIVE FirstChatOf(_, _)
\* ChatHistory.findOne({ documentId }): the _id of the first record of the
\* collection with that documentId, 0 when there is none
FirstChatOf(id, from) ==
  IF from > Len(chats) THEN 0
  ELSE IF chats[from].documentId = id THEN from
  ELSE FirstChatOf(id, from + 1)

findOne(id) == FirstChatOf(id, 1)

\* sendMessage, lines 37-45: the template literal, trimmed as a whole;
\* `${undefined}` prints "undefined"
DocumentContent(document) ==
  StringTrim(
    "\nOriginal Text: "
      \o (IF IsSome(document.extractedText)
          THEN Flatten(Get(document.extractedText)) ELSE "undefined")
      \o "\n\nAnalysis Summary: " \o document.analysis.summary
      \o "\n\nKey Points: " \o JoinWith(document.analysis.keyPoints, ", ")
      \o "\n\nConcepts: " \o JoinWith(document.analysis.concepts, ", ")
      \o "\n      ")

\* A faulty context: the whole history is handed to the adapter.
PreviousMessagesAll(messages) == messages

\* sendMessage, line 48
PreviousMessages(messages) == SliceLast(messages, 10)

\* ChatController.sendMessage, lines 9-25: validation, up to the answer of
\* Document.findById
SendLoad(s, id, message) ==
  /\ sends[s].pc = "idle"
  /\ LET req == [documentId |-> id, message |-> message] IN
     IF IdMissing(id)
     THEN /\ resp' = IdRequired("send", req)
          /\ sends' = sends
     ELSE IF message = <<>> \/ Trim(message) = <<>>
     THEN /\ resp' = Respond("send", req, 400,
                       formatResponse(FALSE, "Message cannot be empty", None, None, now),
                       <<>>)
          /\ sends' = sends
     ELSE IF IdMalformed(id) \/ ~DocExists(id)
     THEN /\ resp' = LookupFailure("send", req, id)
          /\ sends' = sends
     ELSE /\ sends' = [sends EXCEPT ![s] =
                  [pc |-> "document", documentId |-> id, message |-> message,
                   document |-> documents[id]]]
          /\ resp' = resp
  /\ UNCHANGED <<documents, chats, files, now, uploads, up, env, created, work>>

\* sendMessage, lines 27-51, from the answer of ChatHistory.findOne up to the
\* call of the adapter: a record that is not found is constructed, which
\* fixes its createdAt; chatId 0 marks a record that is not stored yet
SendFind(s) ==
  /\ sends[s].pc = "document"
  /\ LET r == sends[s]
         chatId == findOne(r.documentId)
         messages == IF chatId = 0 THEN <<>> ELSE chats[chatId].messages
     IN sends' = [sends EXCEPT ![s] =
          [pc |-> "loaded", documentId |-> r.documentId, message |-> r.message,
           chatId |-> chatId, messages |-> messages,
           createdAt |-> IF chatId = 0 THEN now ELSE chats[chatId].createdAt,
           documentContent |-> DocumentContent(r.document),
           previousMessages |-> PreviousMessages(messages)]]
  /\ UNCHANGED <<documents, chats, files, now, uploads, up, resp, env, created, work>>

\* A faulty push: the reply is pushed before the question.
PushedReplyFirst(message, answer, time) ==
  << [role |-> "assistant", content |-> answer, timestamp |-> time],
     [role |-> "user", content |-> Flatten(message), timestamp |-> time] >>

\* sendMessage, lines 61-73: the two messages pushed onto the history
Pushed(message, answer, time) ==
  << [role |-> "user", content |-> Flatten(message), timestamp |-> time],
     [role |-> "assistant", content |-> answer, timestamp |-> time] >>

\* chatHistory.save() of a record that was not found: an insert of the
\* record as it was constructed and stamped
InsertChat(documentId, messages, createdAt, updatedAt) ==
  Append(chats, [documentId |-> documentId, messages |-> messages,
                 createdAt |-> createdAt, updatedAt |-> updatedAt,
                 version |-> 0])

\* A faulty save: the stored array is overwritten by the pushed messages.
ReplaceChat(chatId, pushed, time) ==
  [chats EXCEPT ![chatId].messages = pushed, ![chatId].updatedAt = time,
                ![chatId].version = @ + 1]

\* chatHistory.save() of a record that was found: Mongoose sends the
\* pushed messages as a $push on the stored array and increments the
\* version, whatever the version is
PushChat(chatId, pushed, time) ==
  [chats EXCEPT ![chatId].messages = @ \o pushed, ![chatId].updatedAt = time,
                ![chatId].version = @ + 1]

\* the failure answer of sendMessage for an exception that is no CastError
SendThrows(req, message, calls) ==
  Respond("send", req, 500,
          formatResponse(FALSE, "Failed to send message", None,
                         Some(message), now), calls)

\* the record of an answerQuestion call with the arguments it was given
AnswerCall(ai, r) ==
  [fn |-> "answerQuestion", question |-> r.message,
   documentContent |-> r.documentContent,
   chatHistory |-> r.previousMessages,
   prompt |-> IF ai.mode = "unconfigured" THEN None
              ELSE Some(buildChatPrompt(Flatten(r.message),
                          r.documentContent, r.previousMessages))]

\* A faulty send: the question is saved on its own before the reply is
\* pushed, so that a reply the schema rejects leaves the question stored.
SendAnswerKeepsQuestion(s, ai) ==
  /\ sends[s].pc = "loaded"
  /\ LET r == sends[s]
         req == [documentId |-> r.documentId, message |-> r.message]
         aiResponse == answerQuestion(ai, r.message, r.documentContent,
                                      r.previousMessages)
         calls == <<AnswerCall(ai, r)>>
         pushed == Pushed(r.message, aiResponse.answer, now)
         local == r.messages \o pushed
     IN IF ~aiResponse.success
        THEN /\ resp' = Respond("send", req, 500,
                          formatResponse(FALSE, "Failed to generate response",
                                         None, None, now), calls)
             /\ sends' = [sends EXCEPT ![s] = IdleSend]
             /\ chats' = chats
        ELSE IF ~ValidMessages(local)
        THEN /\ resp' = SendThrows(req, ValidationMessage("ChatHistory",
                                          MessageErrors(local)), calls)
             /\ sends' = [sends EXCEPT ![s] = IdleSend]
             /\ chats' = IF r.chatId = 0
                         THEN InsertChat(r.documentId, <<pushed[1]>>, r.createdAt, now)
                         ELSE PushChat(r.chatId, <<pushed[1]>>, now)
        ELSE /\ sends' = [sends EXCEPT ![s] =
                  [pc |-> "saving", documentId |-> r.documentId,
                   message |-> r.message, chatId |-> r.chatId,
                   messages |-> r.messages, createdAt |-> r.createdAt,
                   updatedAt |-> now, pushed |-> pushed,
                   answer |-> aiResponse.answer, calls |-> calls]]
             /\ resp' = resp
             /\ chats' = chats
  /\ UNCHANGED <<documents, files, now, uploads, up, env, created, work>>

\* sendMessage, lines 51-76, from the answer of the adapter up to the wait
\* in chatHistory.save(): the two messages are stamped and pushed, the
\* pre-save hook sets updatedAt, and validation runs before anything is
\* sent to the store
SendAnswer(s, ai) ==
  /\ sends[s].pc = "loaded"
  /\ LET r == sends[s]
         req == [documentId |-> r.documentId, message |-> r.message]
         aiResponse == answerQuestion(ai, r.message, r.documentContent,
                                      r.previousMessages)
         calls == <<AnswerCall(ai, r)>>
         pushed == Pushed(r.message, aiResponse.answer, now)
         local == r.messages \o pushed
     IN IF ~aiResponse.success
        THEN /\ resp' = Respond("send", req, 500,
                          formatResponse(FALSE, "Failed to generate response",
                                         None, None, now), calls)
             /\ sends' = [sends EXCEPT ![s] = IdleSend]
        ELSE IF ~ValidMessages(local)
        THEN /\ resp' = SendThrows(req, ValidationMessage("ChatHistory",
                                          MessageErrors(local)), calls)
             /\ sends' = [sends EXCEPT ![s] = IdleSend]
        ELSE /\ sends' = [sends EXCEPT ![s] =
                  [pc |-> "saving", documentId |-> r.documentId,
                   message |-> r.message, chatId |-> r.chatId,
                   messages |-> r.messages, createdAt |-> r.createdAt,
                   updatedAt |-> now, pushed |-> pushed,
                   answer |-> aiResponse.answer, calls |-> calls]]
             /\ resp' = resp
  /\ UNCHANGED <<documents, chats, files, now, uploads, up, env, created, work>>

\* A faulty save: the array of the request, the loaded messages and the two
\* of this turn, is written over the stored one.
SendSaveOverwrites(s) ==
  /\ sends[s].pc = "saving"
  /\ now < MaxClock
  /\ LET r == sends[s]
         req == [documentId |-> r.documentId, message |-> r.message]
         local == r.messages \o r.pushed
     IN /\ chats' = IF r.chatId = 0
                    THEN InsertChat(r.documentId, local, r.createdAt, r.updatedAt)
                    ELSE ReplaceChat(r.chatId, local, r.updatedAt)
        /\ now' = now + 1
        /\ resp' = Respond("send", req, 200,
                     formatResponse(TRUE, "Message sent successfully",
                       Some([chatId |-> IF r.chatId = 0 THEN Len(chats) + 1
                                        ELSE r.chatId,
                             userMessage |-> Flatten(r.message),
                             aiResponse |-> r.answer,
                             timestamp |-> now,
                             messageCount |-> Len(local)]), None, now), r.calls)
  /\ sends' = [sends EXCEPT ![s] = IdleSend]
  /\ UNCHANGED <<documents, files, uploads, up, env, created, work>>

\* sendMessage, lines 76-86: the write of chatHistory.save() is applied and
\* the request answered; messageCount is the length of the request's own
\* array.  A record is named by its place in the collection.
SendSave(s) ==
  /\ sends[s].pc = "saving"
  /\ now < MaxClock
  /\ LET r == sends[s]
         req == [documentId |-> r.documentId, message |-> r.message]
         local == r.messages \o r.pushed
     IN /\ chats' = IF r.chatId = 0
                    THEN InsertChat(r.documentId, local, r.createdAt, r.updatedAt)
                    ELSE PushChat(r.chatId, r.pushed, r.updatedAt)
        /\ now' = now + 1
        /\ resp' = Respond("send", req, 200,
                     formatResponse(TRUE, "Message sent successfully",
                       Some([chatId |-> IF r.chatId = 0 THEN Len(chats) + 1
                                        ELSE r.chatId,
                             userMessage |-> Flatten(r.message),
                             aiResponse |-> r.answer,
                             timestamp |-> now,
                             messageCount |-> Len(local)]), None, now), r.calls)
  /\ sends' = [sends EXCEPT ![s] = IdleSend]
  /\ UNCHANGED <<documents, files, uploads, up, env, created, work>>

\* ChatController.getChatHistory, lines 101-113: up to the answer of
\* Document.findById
getChatHistory(w, id) ==
  /\ work[w].pc = "idle"
  /\ IF IdMissing(id) \/ IdMalformed(id) \/ ~DocExists(id)
     THEN /\ resp' = LookupFailure("history", [documentId |-> id], id)
          /\ work' = work
     ELSE /\ work' = [work EXCEPT ![w] = [pc |-> "history", id |-> id]]
          /\ resp' = resp
  /\ UNCHANGED <<documents, chats, files, now, uploads, up, sends, env, created>>

\* getChatHistory, lines 115-135: the answer of ChatHistory.findOne
HistoryFind(w) ==
  /\ work[w].pc = "history"
  /\ LET id == work[w].id
         req == [documentId |-> id]
     IN resp' =
       IF findOne(id) = 0
       THEN Respond("history", req, 200,
              formatResponse(TRUE, "No chat history found",
                Some([documentId |-> id, messages |-> <<>>, totalMessages |-> 0]),
                None, now), <<>>)
       ELSE LET chatHistory == chats[findOne(id)] IN
            Respond("history", req, 200,
              formatResponse(TRUE, "Chat history retrieved successfully",
                Some([chatId |-> findOne(id), documentId |-> id,
                      messages |-> chatHistory.messages,
                      totalMessages |-> Len(chatHistory.messages),
                      lastUpdated |-> chatHistory.updatedAt]), None, now), <<>>)
  /\ work' = [work EXCEPT ![w] = IdleWork]
  /\ UNCHANGED <<documents, chats, files, now, uploads, up, sends, env, created>>

\* A faulty clear: only the date of the record is touched.
ClearedKeepsMessages(chatHistory, time) ==
  [chatHistory EXCEPT !.updatedAt = time]

\* clearChatHistory, lines 169-170
Cleared(chatHistory, time) ==
  [chatHistory EXCEPT !.messages = <<>>, !.updatedAt = time]

\* the 200 answer of clearChatHistory
ClearAnswers(id) ==
  Respond("clear", [documentId |-> id], 200,
          formatResponse(TRUE, "Chat history cleared successfully",
                         None, None, now), <<>>)

\* ChatController.clearChatHistory, lines 152-163: up to the answer of
\* Document.findById
clearChatHistory(w, id) ==
  /\ work[w].pc = "idle"
  /\ IF IdMissing(id) \/ IdMalformed(id) \/ ~DocExists(id)
     THEN /\ resp' = LookupFailure("clear", [documentId |-> id], id)
          /\ work' = work
     ELSE /\ work' = [work EXCEPT ![w] = [pc |-> "clear", id |-> id]]
          /\ resp' = resp
  /\ UNCHANGED <<documents, chats, files, now, uploads, up, sends, env, created>>

\* A faulty clear: a document without a chat record is given an empty one.
ClearFindUpserts(w) ==
  /\ work[w].pc = "clear"
  /\ LET id == work[w].id
         chatId == findOne(id)
     IN IF chatId = 0
        THEN /\ now < MaxClock
             /\ chats' = InsertChat(id, <<>>, now, now)
             /\ now' = now + 1
             /\ resp' = ClearAnswers(id)
             /\ work' = [work EXCEPT ![w] = IdleWork]
        ELSE /\ work' = [work EXCEPT ![w] =
                           [pc |-> "clearing", id |-> id, chatId |-> chatId,
                            chatHistory |-> chats[chatId],
                            cleared |-> Cleared(chats[chatId], now)]]
             /\ UNCHANGED <<chats, now, resp>>
  /\ UNCHANGED <<documents, files, uploads, up, sends, env, created>>

\* clearChatHistory, lines 166-171, from the answer of ChatHistory.findOne up
\* to the wait in chatHistory.save(): without a record the request is
\* answered, a record has its messages and updatedAt set
ClearFind(w) ==
  /\ work[w].pc = "clear"
  /\ LET id == work[w].id
         chatId == findOne(id)
     IN IF chatId = 0
        THEN /\ resp' = ClearAnswers(id)
             /\ work' = [work EXCEPT ![w] = IdleWork]
        ELSE /\ work' = [work EXCEPT ![w] =
                           [pc |-> "clearing", id |-> id, chatId |-> chatId,
                            chatHistory |-> chats[chatId],
                            cleared |-> Cleared(chats[chatId], now)]]
             /\ resp' = resp
  /\ UNCHANGED <<documents, chats, files, now, uploads, up, sends, env, created>>

\* clearChatHistory, lines 171-183: the update of chatHistory.save() is
\* applied, or fails, and the request answered.  The array that was set is
\* written where the version that was loaded matches; an empty array set on
\* an empty array modifies nothing, and then only updatedAt is written.
ClearSave(w) ==
  /\ work[w].pc = "clearing"
  /\ LET id == work[w].id
         chatId == work[w].chatId
         cleared == work[w].cleared
         unmodified == work[w].chatHistory.messages = <<>>
     IN IF ~unmodified /\ chats[chatId].version # cleared.version
        THEN /\ resp' = Respond("clear", [documentId |-> id], 500,
                  formatResponse(FALSE, "Failed to clear chat history",
                                 None, None, now), <<>>)
             /\ UNCHANGED <<chats, now>>
        ELSE /\ now < MaxClock
             /\ chats' =
                  [chats EXCEPT ![chatId] =
                     IF unmodified
                     THEN [@ EXCEPT !.updatedAt = cleared.updatedAt]
                     ELSE [@ EXCEPT !.messages = cleared.messages,
                                    !.updatedAt = cleared.updatedAt,
                                    !.version = @ + 1]]
             /\ now' = now + 1
             /\ resp' = ClearAnswers(id)
  /\ work' = [work EXCEPT ![w] = IdleWork]
  /\ UNCHANGED <<documents, files, uploads, up, sends, env, created>>

\* ------------------------------------------------------------ PDF export
\* A rendered PDF is the sequence of the strings handed to doc.text(), in
\* order.  The two characters outside ASCII are written by their code points.
Bullet == "<U+2022>"
CheckMark == "<U+2713>"

\* String.fromCharCode(65 + optIndex), optIndex counted from 0
OptionLabel(n) ==
  IF n <= 26
  THEN << "A", "B", "C", "D", "E", "F", "G", "H", "I", "J", "K", "L", "M", "N",
          "O", "P", "Q", "R", "S", "T", "U", "V", "W", "X", "Y", "Z" >>[n]
  ELSE "chr(" \o ToString(64 + n) \o ")"

\* PDFGenerator.addContinuousQuiz, one question.  A stored question always
\* has an options array, which is truthy even when it is empty.
QuizLines(question, index) ==
  << ToString(index) \o ". " \o question.question >>
    \o (IF question.type = "mcq"
        THEN [j \in 1..Len(question.options) |->
                "   " \o OptionLabel(j) \o ". " \o question.options[j]
                  \o (IF question.options[j] = question.correctAnswer
                      THEN " " \o CheckMark ELSE "")]
        ELSE << "   Answer: " \o question.correctAnswer >>)
    \o (IF question.explanation # ""
        THEN << "   Explanation: " \o question.explanation >> ELSE <<>>)

RECURSIVE QuizFrom(_, _)
QuizFrom(questions, index) ==
  IF index > Len(questions) THEN <<>>
  ELSE QuizLines(questions[index], index) \o QuizFrom(questions, index + 1)

\* PDFGenerator.addContinuousQuiz
addContinuousQuiz(questions) == QuizFrom(questions, 1)

RECURSIVE VideosFrom(_, _)
\* the url of a video is not a path of the Document schema: a stored video
\* has none
VideosFrom(videos, index) ==
  IF index > Len(videos) THEN <<>>
  ELSE << ToString(index) \o ". " \o videos[index].title,
          "   Channel: " \o videos[index].channelTitle,
          "   URL: undefined" >> \o VideosFrom(videos, index + 1)

\* PDFGenerator.addContinuousVideos
addContinuousVideos(videos) == VideosFrom(SliceFirst(videos, 8), 1)

BulletLines(items) == [i \in 1..Len(items) |-> Bullet \o " " \o items[i]]

\* PDFGenerator.addContinuousContent(doc, document, type)
addContinuousContent(document, type) ==
  (IF type \in {"complete", "summary"}
   THEN (IF IsSome(document.extractedText) /\ Get(document.extractedText) # <<>>
         THEN << Flatten(Get(document.extractedText)) >> ELSE <<>>)
     \o (IF document.analysis.summary # ""
         THEN << "Summary:", document.analysis.summary >> ELSE <<>>)
     \o (IF Len(document.analysis.keyPoints) > 0
         THEN << "Key Points:" >> \o BulletLines(document.analysis.keyPoints)
         ELSE <<>>)
     \o (IF Len(document.analysis.concepts) > 0
         THEN << "Concepts:" >> \o BulletLines(document.analysis.concepts)
         ELSE <<>>)
     \o (IF document.analysis.explanation # "" /\ type = "complete"
         THEN << "Detailed Explanation:", document.analysis.explanation >>
         ELSE <<>>)
   ELSE <<>>)
  \o (IF type \in {"complete", "quiz"} /\ Len(document.quizQuestions) > 0
      THEN (IF type = "complete" THEN << "Quiz Questions:" >> ELSE <<>>)
             \o addContinuousQuiz(document.quizQuestions)
      ELSE <<>>)
  \o (IF type = "complete" /\ Len(document.youtubeVideos) > 0
      THEN << "Recommended Videos:" >> \o addContinuousVideos(document.youtubeVideos)
      ELSE <<>>)

\* PDFGenerator.generatePDF: data.chatHistory is read by no branch
generatePDF(data) ==
  IF data.exportType = "summary"
  THEN << "Study Summary" >> \o addContinuousContent(data.document, "summary")
  ELSE IF data.exportType = "quiz"
  THEN << "Quiz Questions" >> \o addContinuousContent(data.document, "quiz")
  ELSE IF data.exportType = "notes"
  THEN << "Study Notes" >> \o addContinuousContent(data.document, "summary")
  ELSE << "Study Material" >> \o addContinuousContent(data.document, "complete")

\* res.setHeader(...) three times and res.send(pdfBuffer): status 200
SendPdf(op, req, prefix, id, pdf) ==
  Respond(op, req, 200,
          [contentType |-> "application/pdf",
           filename |-> prefix \o "-" \o ToString(id) \o "-" \o ToString(now) \o ".pdf",
           pdf |-> pdf], << "generatePDF" >>)

\* the query strings GET /export/:id is called with; None: no type given
ExportTypes ==
  {None, Some(""), Some("complete"), Some("summary"), Some("quiz"),
   Some("notes"), Some("chat")}

\* the wait of an export handler in generatePDF, with the data handed to it
Rendering(op, req, prefix, id, data) ==
  [pc |-> "render", op |-> op, req |-> req, prefix |-> prefix, id |-> id,
   data |-> data]

\* ExportController.exportDocument, lines 10-34: up to the call of
\* generatePDF
exportDocument(w, id, type) ==
  /\ work[w].pc = "idle"
  /\ LET req == [id |-> id, type |-> type]
         exportType == IF Truthy(type) THEN Get(type) ELSE "complete"
     IN IF IdMissing(id) \/ IdMalformed(id) \/ ~DocExists(id)
        THEN /\ resp' = LookupFailure("export", req, id)
             /\ work' = work
        ELSE /\ work' = [work EXCEPT ![w] =
                  Rendering("export", req, "study-material", id,
                            [document |-> documents[id], chatHistory |-> None,
                             exportType |-> exportType])]
             /\ resp' = resp
  /\ UNCHANGED <<documents, chats, files, now, uploads, up, sends, env, created>>

\* ExportController.exportSummary and exportNotes up to the call of
\* generatePDF; they differ in the export type and the file name only
ExportFixed(w, op, id, exportType) ==
  /\ work[w].pc = "idle"
  /\ IF IdMissing(id) \/ IdMalformed(id) \/ ~DocExists(id)
     THEN /\ resp' = LookupFailure(op, [id |-> id], id)
          /\ work' = work
     ELSE /\ work' = [work EXCEPT ![w] =
               Rendering(op, [id |-> id], exportType, id,
                         [document |-> documents[id], chatHistory |-> None,
                          exportType |-> exportType])]
          /\ resp' = resp
  /\ UNCHANGED <<documents, chats, files, now, uploads, up, sends, env, created>>

exportSummary(w, id) == ExportFixed(w, "exportSummary", id, "summary")

exportNotes(w, id) == ExportFixed(w, "exportNotes", id, "notes")

\* ExportController.exportQuiz up to the call of generatePDF
exportQuiz(w, id) ==
  /\ work[w].pc = "idle"
  /\ LET req == [id |-> id] IN
     IF IdMissing(id) \/ IdMalformed(id) \/ ~DocExists(id)
     THEN /\ resp' = LookupFailure("exportQuiz", req, id)
          /\ work' = work
     ELSE IF Len(documents[id].quizQuestions) = 0
     THEN /\ resp' = Respond("exportQuiz", req, 404,
                 formatResponse(FALSE, "No quiz questions found for this document",
                                None, None, now), <<>>)
          /\ work' = work
     ELSE /\ work' = [work EXCEPT ![w] =
               Rendering("exportQuiz", req, "quiz", id,
                         [document |-> documents[id], chatHistory |-> None,
                          exportType |-> "quiz"])]
          /\ resp' = resp
  /\ UNCHANGED <<documents, chats, files, now, uploads, up, sends, env, created>>

\* ExportController.exportChatHistory, lines 181-189: up to the answer of
\* Document.findById
exportChatHistory(w, id) ==
  /\ work[w].pc = "idle"
  /\ IF IdMissing(id) \/ IdMalformed(id) \/ ~DocExists(id)
     THEN /\ resp' = LookupFailure("exportChat", [id |-> id], id)
          /\ work' = work
     ELSE /\ work' = [work EXCEPT ![w] =
               [pc |-> "exportChat", id |-> id, document |-> documents[id]]]
          /\ resp' = resp
  /\ UNCHANGED <<documents, chats, files, now, uploads, up, sends, env, created>>

\* exportChatHistory, lines 191-203: from the answer of ChatHistory.findOne
\* up to the call of generatePDF
ExportFind(w) ==
  /\ work[w].pc = "exportChat"
  /\ LET id == work[w].id
         req == [id |-> id]
     IN IF findOne(id) = 0 \/ Len(chats[findOne(id)].messages) = 0
        THEN /\ resp' = Respond("exportChat", req, 404,
                  formatResponse(FALSE, "No chat history found for this document",
                                 None, None, now), <<>>)
             /\ work' = [work EXCEPT ![w] = IdleWork]
        ELSE /\ work' = [work EXCEPT ![w] =
                  Rendering("exportChat", req, "chat-history", id,
                            [document |-> work[w].document,
                             chatHistory |-> Some(chats[findOne(id)]),
                             exportType |-> "chat"])]
             /\ resp' = resp
  /\ UNCHANGED <<documents, chats, files, now, uploads, up, sends, env, created>>

\* the export handlers from the answer of generatePDF on: the file name is
\* stamped and the PDF sent
ExportRender(w) ==
  /\ work[w].pc = "render"
  /\ LET r == work[w] IN
     resp' = SendPdf(r.op, r.req, r.prefix, r.id, generatePDF(r.data))
  /\ work' = [work EXCEPT ![w] = IdleWork]
  /\ UNCHANGED <<documents, chats, files, now, uploads, up, sends, env, created>>

\* ExportController.getExportOptions, lines 239-255
ExportOptions(document) ==
  [complete |-> [available |-> TRUE,
                 description |-> "Complete study material with all content",
                 includes |-> << "extracted text", "analysis", "quiz questions",
                                 "YouTube videos" >>],
   summary |-> [available |-> document.analysis.summary # "",
                description |-> "Summary and key points only",
                includes |-> << "summary", "key points", "concepts" >>],
   quiz |-> [available |-> Len(document.quizQuestions) > 0,
             description |-> "Quiz questions and answers",
             includes |-> << "quiz questions", "answers", "explanations" >>]]

\* ExportController.getExportOptions, lines 225-235: up to the answer of
\* Document.findById
getExportOptions(w, id) ==
  /\ work[w].pc = "idle"
  /\ IF IdMissing(id) \/ IdMalformed(id) \/ ~DocExists(id)
     THEN /\ resp' = LookupFailure("options", [id |-> id], id)
          /\ work' = work
     ELSE /\ work' = [work EXCEPT ![w] =
               [pc |-> "options", id |-> id, document |-> documents[id]]]
          /\ resp' = resp
  /\ UNCHANGED <<documents, chats, files, now, uploads, up, sends, env, created>>

\* A faulty options handler: a document without a chat record is given an
\* empty one.
OptionsFindCreatesChat(w) ==
  /\ work[w].pc = "options"
  /\ LET id == work[w].id IN
     /\ resp' = Respond("options", [id |-> id], 200,
                  formatResponse(TRUE, "Export options retrieved successfully",
                    Some([documentId |-> id,
                          exportOptions |-> ExportOptions(work[w].document)]),
                    None, now), <<>>)
     /\ chats' = IF findOne(id) = 0 THEN InsertChat(id, <<>>, now, now) ELSE chats
  /\ work' = [work EXCEPT ![w] = IdleWork]
  /\ UNCHANGED <<documents, files, now, uploads, up, sends, env, created>>

\* getExportOptions, lines 237-260: the answer of ChatHistory.findOne, which
\* is not read
OptionsFind(w) ==
  /\ work[w].pc = "options"
  /\ LET id == work[w].id IN
     resp' = Respond("options", [id |-> id], 200,
               formatResponse(TRUE, "Export options retrieved successfully",
                 Some([documentId |-> id,
                       exportOptions |-> ExportOptions(work[w].document)]),
                 None, now), <<>>)
  /\ work' = [work EXCEPT ![w] = IdleWork]
  /\ UNCHANGED <<documents, chats, files, now, uploads, up, sends, env, created>>

\* ------------------------------------------------- context and list
\* ChatController.getDocumentContext.  extractedText.substring(0, 500) of a
\* document stored without extractedText throws a TypeError.
getDocumentContext(id) ==
  /\ LET req == [documentId |-> id] IN
     resp' =
       IF IdMissing(id) \/ IdMalformed(id) \/ ~DocExists(id)
       THEN LookupFailure("context", req, id)
       ELSE LET document == documents[id] IN
            IF ~IsSome(document.extractedText)
            THEN Respond("context", req, 500,
                   formatResponse(FALSE, "Failed to retrieve document context",
                                  None, None, now), <<>>)
            ELSE Respond("context", req, 200,
                   formatResponse(TRUE, "Document context retrieved successfully",
                     Some([documentId |-> document.id,
                           userPrompt |-> document.userPrompt,
                           extractedText |->
                             Substring(Flatten(Get(document.extractedText)), 500)
                               \o "...",
                           analysis |->
                             [summary |-> document.analysis.summary,
                              keyPoints |-> SliceFirst(document.analysis.keyPoints, 3),
                              concepts |-> SliceFirst(document.analysis.concepts, 5)],
                           createdAt |-> document.createdAt]), None, now), <<>>)
  /\ UNCHANGED <<documents, chats, files, now, uploads, up, sends, env, created, work>>

\* Document.find().sort({ createdAt: -1 }): the orders in which the store
\* may return the stored ids, newest first.  The sort names no second key,
\* so the order of documents created at the same instant is the store's
\* choice.
NewestFirst ==
  LET ids == DOMAIN documents
      n == Cardinality(ids)
  IN {sorted \in [1..n -> ids] :
        \A i, j \in 1..n :
          i < j => /\ sorted[i] # sorted[j]
                   /\ documents[sorted[i]].createdAt >= documents[sorted[j]].createdAt}

\* Math.ceil(total / limit)
CeilDiv(total, limit) ==
  IF limit > 0 THEN (total + limit - 1) \div limit
  ELSE 0 - (total \div (0 - limit))

\* DocumentController.getAllDocuments, lines 86-94: up to the answer of
\* Document.find; page and limit after parseInt(...) || default, which is
\* never 0
getAllDocuments(w, page, limit) ==
  /\ work[w].pc = "idle"
  /\ \E sorted \in NewestFirst :
       LET skip == (page - 1) * limit
           found == SliceFirst(SubSeq(sorted, skip + 1, Len(sorted)), limit)
       IN work' = [work EXCEPT ![w] =
                     [pc |-> "documents", page |-> page, limit |-> limit,
                      found |-> [i \in 1..Len(found) |-> documents[found[i]]]]]
  /\ UNCHANGED <<documents, chats, files, now, uploads, up, sends, resp, env, created>>

\* getAllDocuments, lines 96-118: the answer of Document.countDocuments.
\* doc.extractedText.substring(0, 100) of a document stored without
\* extractedText throws a TypeError.
DocumentsCount(w) ==
  /\ work[w].pc = "documents"
  /\ LET page == work[w].page
         limit == work[w].limit
         found == work[w].found
         req == [page |-> page, limit |-> limit]
         total == Cardinality(DOMAIN documents)
     IN resp' =
          IF \E i \in 1..Len(found) : ~IsSome(found[i].extractedText)
          THEN Respond("list", req, 500,
                 formatResponse(FALSE, "Failed to retrieve documents", None, None, now),
                 <<>>)
          ELSE Respond("list", req, 200,
                 formatResponse(TRUE, "Documents retrieved successfully",
                   Some([documents |->
                           [i \in 1..Len(found) |->
                              [id |-> found[i].id,
                               userPrompt |-> found[i].userPrompt,
                               summary |->
                                 IF found[i].analysis.summary # ""
                                 THEN found[i].analysis.summary
                                 ELSE "No summary available",
                               createdAt |-> found[i].createdAt,
                               textPreview |->
                                 Substring(Flatten(Get(found[i].extractedText)), 100)
                                   \o "..."]],
                         pagination |->
                           [currentPage |-> page,
                            totalPages |-> CeilDiv(total, limit),
                            totalDocuments |-> total,
                            hasNext |-> page < CeilDiv(total, limit),
                            hasPrev |-> page > 1]]), None, now), <<>>)
  /\ work' = [work EXCEPT ![w] = IdleWork]
  /\ UNCHANGED <<documents, chats, files, now, uploads, up, sends, env, created>>

\* ChatHistory.find().sort({ updatedAt: -1 }): the orders in which the store
\* may return the stored _ids, latest first.  The sort names no second key,
\* so the order of records updated at the same instant is the store's
\* choice.
LatestFirst ==
  LET n == Len(chats)
  IN {sorted \in [1..n -> 1..n] :
        \A i, j \in 1..n :
          i < j => /\ sorted[i] # sorted[j]
                   /\ chats[sorted[i]].updatedAt >= chats[sorted[j]].updatedAt}

\* populate('documentId', 'userPrompt analysis.summary createdAt') for one
\* chat record: the selected fields of its Document, None (null) when the
\* Document is not stored
Populate(chat) ==
  IF DocExists(chat.documentId)
  THEN Some([id |-> chat.documentId,
             userPrompt |-> documents[chat.documentId].userPrompt,
             summary |-> documents[chat.documentId].analysis.summary,
             createdAt |-> documents[chat.documentId].createdAt])
  ELSE None

\* getAllChats, lines 241-252: one item of the response, from a record as
\* the find returned it and the document as populate returned it
ChatSummary(chatId, chat, populated) ==
  [chatId |-> chatId,
   documentId |-> IF IsSome(populated) THEN Some(Get(populated).id) ELSE None,
   documentSummary |->
     IF IsSome(populated) /\ Get(populated).summary # ""
     THEN Get(populated).summary ELSE "No summary",
   userPrompt |->
     IF IsSome(populated) /\ Get(populated).userPrompt # ""
     THEN Get(populated).userPrompt ELSE "No prompt",
   messageCount |-> Len(chat.messages),
   lastMessage |-> IF Len(chat.messages) > 0
                   THEN Substring(Last(chat.messages).content, 100) \o "..."
                   ELSE "No messages",
   lastUpdated |-> chat.updatedAt,
   createdAt |-> chat.createdAt]

\* ChatController.getAllChats, lines 228-236: up to the answer of the find
\* query (sorted, skipped, limited); page and limit after parseInt(...) ||
\* default, which is never 0
getAllChats(w, page, limit) ==
  /\ work[w].pc = "idle"
  /\ \E sorted \in LatestFirst :
       LET skip == (page - 1) * limit
           found == SliceFirst(SubSeq(sorted, skip + 1, Len(sorted)), limit)
       IN work' = [work EXCEPT ![w] =
                     [pc |-> "chats", page |-> page, limit |-> limit,
                      found |-> [i \in 1..Len(found) |->
                                   [chatId |-> found[i], chat |-> chats[found[i]]]]]]
  /\ UNCHANGED <<documents, chats, files, now, uploads, up, sends, resp, env, created>>

\* getAllChats, line 233: the answer of the query that populate makes for
\* the documents of the records found
ChatsPopulate(w) ==
  /\ work[w].pc = "chats"
  /\ work' = [work EXCEPT ![w] =
                [pc |-> "populated", page |-> work[w].page, limit |-> work[w].limit,
                 found |-> work[w].found,
                 populated |-> [i \in 1..Len(work[w].found) |->
                                  Populate(work[w].found[i].chat)]]]
  /\ UNCHANGED <<documents, chats, files, now, uploads, up, sends, resp, env, created>>

\* getAllChats, lines 238-262: the answer of ChatHistory.countDocuments
ChatsCount(w) ==
  /\ work[w].pc = "populated"
  /\ LET page == work[w].page
         limit == work[w].limit
         found == work[w].found
         total == Len(chats)
     IN resp' =
          Respond("chats", [page |-> page, limit |-> limit], 200,
            formatResponse(TRUE, "Chat list retrieved successfully",
              Some([chats |-> [i \in 1..Len(found) |->
                                 ChatSummary(found[i].chatId, found[i].chat,
                                             work[w].populated[i])],
                    pagination |->
                      [currentPage |-> page,
                       totalPages |-> CeilDiv(total, limit),
                       totalChats |-> total,
                       hasNext |-> page < CeilDiv(total, limit),
                       hasPrev |-> page > 1]]), None, now), <<>>)
  /\ work' = [work EXCEPT ![w] = IdleWork]
  /\ UNCHANGED <<documents, chats, files, now, uploads, up, sends, env, created>>

\* --------------------------------------------------- the application file
\* Bodies sent without formatResponse hold only the fields the code writes;
\* an optional field that is written is an optional value.
\* app.get('/api/health', ...)
healthCheck ==
  /\ resp' = Respond("health", [path |-> "/api/health"], 200,
                     [status |-> "Server is running", timestamp |-> now], <<>>)
  /\ UNCHANGED <<documents, chats, files, now, uploads, up, sends, env, created, work>>

\* the 404 handler: no route matched the request
notFoundHandler ==
  /\ resp' = Respond("unknown", [path |-> "/api/nothing"], 404,
                     [success |-> FALSE, message |-> "Route not found"], <<>>)
  /\ UNCHANGED <<documents, chats, files, now, uploads, up, sends, env, created, work>>

\* what a middleware in front of the routes passes to next(error): the body
\* parser on a malformed JSON body, the upload middleware on a rejected file
MiddlewareErrors == {"Unexpected end of JSON input", "File too large"}

\* the error handling middleware
errorHandler(error) ==
  /\ resp' = Respond("error", [error |-> error], 500,
                     [success |-> FALSE, message |-> "Internal server error",
                      error |-> Some(IF env = "development" THEN error
                                     ELSE "Something went wrong")], <<>>)
  /\ UNCHANGED <<documents, chats, files, now, uploads, up, sends, env, created, work>>

\* ------------------------------------------ the AI adapter, call by call
\* one call of analyzeContent, before it runs
AnalysisCall(ai, extractedText, userPrompt) ==
  [pc |-> "analyzeContent", ai |-> ai, extractedText |-> extractedText,
   userPrompt |-> userPrompt]

\* GeminiService.analyzeContent called and returned
AnalyzeStep ==
  /\ up.pc = "analyzeContent"
  /\ up' = [up EXCEPT !.pc = "returned"]
  /\ resp' = [op |-> "analyzeContent",
              req |-> [ai |-> up.ai, extractedText |-> up.extractedText,
                       userPrompt |-> up.userPrompt],
              result |-> analyzeContent(up.ai, up.extractedText, up.userPrompt)]
  /\ UNCHANGED <<documents, chats, files, now, uploads, sends, env, created, work>>

\* ------------------------------------------- the OCR adapter, step by step
\* One call of the adapter: up.pc is the method that runs next, up.trace the
\* methods entered so far, up.entry the method the caller called.
OcrCall(entry, ocr, imagePath) ==
  [pc |-> entry, entry |-> entry, ocr |-> ocr, imagePath |-> imagePath,
   trace |-> << >>]

\* control passes to method `to`
OcrEnters(to) ==
  /\ up' = [up EXCEPT !.pc = to, !.trace = Append(up.trace, up.pc)]
  /\ resp' = resp

\* the call returns result to its caller
OcrReturns(result) ==
  /\ up' = [up EXCEPT !.pc = "returned", !.trace = Append(up.trace, up.pc)]
  /\ resp' = [op |-> up.entry, req |-> [imagePath |-> up.imagePath],
              result |-> result, calls |-> Append(up.trace, up.pc)]

\* A faulty structured mode: without a document structure it returns the
\* placeholder at once.
DetectStepSkipsPlain ==
  /\ up.pc = "detectDocumentStructure"
  /\ IF ~up.ocr.configured \/ up.ocr.doc # "pages"
     THEN OcrEnters("fallbackTextExtraction")
     ELSE OcrReturns(detectDocumentStructure(up.ocr, up.imagePath))
  /\ UNCHANGED <<documents, chats, files, now, uploads, sends, env, created, work>>

\* GoogleVisionService.detectDocumentStructure, lines 84-129
DetectStep ==
  /\ up.pc = "detectDocumentStructure"
  /\ IF ~up.ocr.configured THEN OcrEnters("fallbackTextExtraction")
     ELSE IF up.ocr.doc # "pages" THEN OcrEnters("extractTextFromImage")
     ELSE OcrReturns(detectDocumentStructure(up.ocr, up.imagePath))
  /\ UNCHANGED <<documents, chats, files, now, uploads, sends, env, created, work>>

\* GoogleVisionService.extractTextFromImage, lines 35-70
ExtractStep ==
  /\ up.pc = "extractTextFromImage"
  /\ IF ~up.ocr.configured \/ up.ocr.text # "found"
     THEN OcrEnters("fallbackTextExtraction")
     ELSE OcrReturns(extractTextFromImage(up.ocr, up.imagePath))
  /\ UNCHANGED <<documents, chats, files, now, uploads, sends, env, created, work>>

\* GoogleVisionService.fallbackTextExtraction, lines 132-156
FallbackStep ==
  /\ up.pc = "fallbackTextExtraction"
  /\ OcrReturns(fallbackTextExtraction(up.imagePath))
  /\ UNCHANGED <<documents, chats, files, now, uploads, sends, env, created, work>>

\* ----------------------------------------- the video adapter, call by call
\* One call of the adapter: up.pc is the method the caller calls, up.yt what
\* the provider does, up.keywords the argument.
VideoCall(method, yt, keywords) ==
  [pc |-> method, yt |-> yt, keywords |-> keywords]

\* YouTubeService.searchVideos called and returned
SearchStep ==
  /\ up.pc = "searchVideos"
  /\ up' = [up EXCEPT !.pc = "returned"]
  /\ resp' = [op |-> "searchVideos", req |-> [keywords |-> up.keywords],
              result |-> searchVideos(up.yt.plain, up.keywords, now)]
  /\ UNCHANGED <<documents, chats, files, now, uploads, sends, env, created, work>>

\* YouTubeService.getEducationalVideos called and returned
EducationalStep ==
  /\ up.pc = "getEducationalVideos"
  /\ up' = [up EXCEPT !.pc = "returned"]
  /\ resp' = [op |-> "getEducationalVideos", req |-> [keywords |-> up.keywords],
              result |-> getEducationalVideos(up.yt, up.keywords, now)]
  /\ UNCHANGED <<documents, chats, files, now, uploads, sends, env, created, work>>

\* ------------------------------------------------------------ the system
\* Which requests a specification lets overlap is written in its next-state
\* relation, with these three conditions: a request that only sets the scene
\* is received while no other is between two of its steps.
NoUpload == \A u \in UploadSlots : up[u].pc = "idle"
NoSend == \A s \in SendSlots : sends[s].pc = "idle"
NoWork == \A w \in WorkSlots : work[w].pc = "idle"
Quiet == NoUpload /\ NoSend /\ NoWork

\* The chat session manager over documents uploaded while every provider
\* but OCR is down.  Two sends overlap in every way, and so do a send and a
\* clear or a read of the history; an upload runs while nothing else does.
NextChat ==
  \/ Quiet /\ UploadValidate(TRUE, "explain photosynthesis", QuietWorld)
  \/ \E u \in UploadSlots : UploadOcr(u)
  \/ \E u \in UploadSlots : UploadAnalyze(u)
  \/ \E u \in UploadSlots : UploadQuiz(u)
  \/ \E u \in UploadSlots : UploadVideo(u)
  \/ \E u \in UploadSlots : UploadPersist(u)
  \/ \E id \in DocumentIds, message \in Messages :
       NoUpload /\ SendLoad(1, id, message)
  \/ \E s \in SendSlots \ {1}, id \in DocumentIds :
       sends[s - 1].pc # "idle" /\ NoWork /\ SendLoad(s, id, <<" ", "Why", "?">>)
  \/ \E s \in SendSlots : SendFind(s)
  \/ \E ai \in ChatWorlds : SendAnswer(1, ai)
  \/ \E s \in SendSlots \ {1} : SendAnswer(s, Answer("Mitosis is cell division."))
  \/ \E s \in SendSlots : SendSave(s)
  \/ \E id \in DocumentIds : NoUpload /\ sends[MaxSends].pc = "idle" /\ getChatHistory(1, id)
  \/ HistoryFind(1)
  \/ \E id \in DocumentIds : NoUpload /\ sends[MaxSends].pc = "idle" /\ clearChatHistory(1, id)
  \/ ClearFind(1)
  \/ ClearSave(1)

SpecChat == Init /\ [][NextChat]_vars

\* The document pipeline under every provider behaviour: uploads overlap
\* each other, and gets and deletes overlap them and each other.
NextUpload ==
  \/ \E hasFile \in BOOLEAN, prompt \in Prompts, world \in UploadWorlds :
       UploadValidate(hasFile, prompt, world)
  \/ \E u \in UploadSlots : UploadOcr(u)
  \/ \E u \in UploadSlots : UploadAnalyze(u)
  \/ \E u \in UploadSlots : UploadQuiz(u)
  \/ \E u \in UploadSlots : UploadVideo(u)
  \/ \E u \in UploadSlots : UploadPersist(u)
  \/ \E id \in DocumentIds : getDocumentById(id)
  \/ \E w \in WorkSlots, id \in DocumentIds : DeleteLoad(w, id)
  \/ \E w \in WorkSlots, unlinkThrows \in BOOLEAN : DeleteRemove(w, unlinkThrows)

SpecUpload == Init /\ [][NextUpload]_vars

\* Stored documents with one chat conversation beside them, and the quiz
\* regenerated under every behaviour of the quiz provider.  Two
\* regenerations and a delete overlap in every way; the uploads and the one
\* send that set the scene run while nothing else does.
NextDocs ==
  \/ \E world \in {QuietWorld, World(OcrPlain, AnalysisFull, QuizGood, YtUp)} :
       NoSend /\ NoWork /\ NoUpload /\ UploadValidate(TRUE, "explain photosynthesis", world)
  \/ \E u \in UploadSlots : UploadOcr(u)
  \/ \E u \in UploadSlots : UploadAnalyze(u)
  \/ \E u \in UploadSlots : UploadQuiz(u)
  \/ \E u \in UploadSlots : UploadVideo(u)
  \/ \E u \in UploadSlots : UploadPersist(u)
  \/ \E w \in WorkSlots, id \in DocumentIds : NoUpload /\ NoSend /\ RegenerateLoad(w, id)
  \/ \E ai \in QuizWorlds : NoUpload /\ RegenerateQuiz(1, ai)
  \/ NoUpload /\ RegenerateQuiz(2, QuizWith(Some(<<QShort>>)))
  \/ \E w \in WorkSlots : NoUpload /\ RegenerateSave(w)
  \/ \E id \in DocumentIds : NoUpload /\ NoSend /\ DeleteLoad(1, id)
  \/ NoUpload /\ DeleteRemove(1, FALSE)
  \/ \E id \in DocumentIds : Quiet /\ SendLoad(1, id, <<" ", "Why", "?">>)
  \/ SendFind(1)
  \/ SendAnswer(1, AiDown)
  \/ SendSave(1)

SpecDocs == Init /\ [][NextDocs]_vars

\* What the upload pipeline hands to the persist step for the n-th upload
\* under provider behaviour world (uploadAndAnalyze, lines 24-46).
PipelineResult(n, world, prompt, time) ==
  LET visionResult == detectDocumentStructure(world.ocr, UploadPath(n))
      extractedText == Get(ExtractedTextOf(visionResult))
      analysisResult == analyzeContent(world.analysis, extractedText, prompt)
  IN [imagePath |-> UploadPath(n), userPrompt |-> prompt,
      visionResult |-> visionResult, extractedText |-> extractedText,
      analysisResult |-> analysisResult,
      quizResult |-> generateQuizQuestions(world.quiz, extractedText, prompt),
      youtubeResult |-> getEducationalVideos(world.video,
                          analysisResult.analysis.searchKeywords, time)]

\* the Document a successful n-th upload stores at time
UploadedDocument(n, world, prompt, time) ==
  NewDocument(n, DocumentData(PipelineResult(n, world, prompt, time)), time)

\* the i-th turn of an earlier conversation, saved at time
PastTurn(i, time) ==
  << [role |-> "user", content |-> "Question " \o ToString(i), timestamp |-> time],
     [role |-> "assistant", content |-> "Answer " \o ToString(i),
      timestamp |-> time] >>

RECURSIVE PastTurns(_, _)
\* the messages of the first k turns of a conversation that ended before the
\* clock's origin: turn i was saved at time i - k
PastTurns(k, upto) ==
  IF upto = 0 THEN <<>> ELSE PastTurns(k, upto - 1) \o PastTurn(upto, upto - k)

\* The store after one upload and a conversation of k turns about it.
InitContext ==
  /\ \E k \in 0..MaxTurns :
       /\ documents = (1 :> UploadedDocument(1, QuietWorld,
                                             "explain photosynthesis", 0 - k))
       /\ chats = IF k = 0 THEN <<>>
                  ELSE <<[documentId |-> 1, messages |-> PastTurns(k, k),
                          createdAt |-> 1 - k, updatedAt |-> 0,
                          version |-> k]>>
  /\ files = {UploadPath(1)}
  /\ now = 1
  /\ uploads = 1
  /\ up = IdleUploads
  /\ sends = [s \in SendSlots |-> IdleSend]
  /\ resp = NoResponse
  /\ env = "production"
  /\ created = 1
  /\ work = [w \in WorkSlots |-> IdleWork]

\* One conversation continued from histories of every length up to
\* MaxTurns turns.
NextContext ==
  \/ SendLoad(1, 1, <<" ", "Why", "?">>)
  \/ SendFind(1)
  \/ \E ai \in ChatWorlds : SendAnswer(1, ai)
  \/ SendSave(1)
  \/ getChatHistory(1, 1)
  \/ HistoryFind(1)

SpecContext == InitContext /\ [][NextContext]_vars

\* a quiz response none of whose questions is usable
QuizEmpty == QuizWith(Some(<<QNoAnswer>>))

\* uploads that store a full document and one without summary, questions
\* and provider videos
ExportWorlds ==
  {World(OcrPages, AnalysisFull, QuizGood, YtUp),
   World(OcrPages, AnalysisPartial, QuizEmpty, YtDown)}

\* The export routes next to the operations that write the stores.  A
\* request is received while no upload, delete or regeneration is between
\* two of its steps.
NextExport ==
  \/ \E world \in ExportWorlds : Quiet /\ UploadValidate(TRUE, "explain photosynthesis", world)
  \/ \E u \in UploadSlots : UploadOcr(u)
  \/ \E u \in UploadSlots : UploadAnalyze(u)
  \/ \E u \in UploadSlots : UploadQuiz(u)
  \/ \E u \in UploadSlots : UploadVideo(u)
  \/ \E u \in UploadSlots : UploadPersist(u)
  \/ \E id \in DocumentIds : Quiet /\ SendLoad(1, id, <<"Why", "?">>)
  \/ SendFind(1)
  \/ SendAnswer(1, Answer("Mitosis is cell division."))
  \/ SendSave(1)
  \/ \E id \in DocumentIds : Quiet /\ clearChatHistory(1, id)
  \/ ClearFind(1)
  \/ ClearSave(1)
  \/ \E id \in DocumentIds : Quiet /\ getChatHistory(1, id)
  \/ HistoryFind(1)
  \/ \E id \in DocumentIds : Quiet /\ getDocumentContext(id)
  \/ \E id \in DocumentIds : Quiet /\ RegenerateLoad(1, id)
  \/ RegenerateQuiz(1, QuizEmpty)
  \/ RegenerateSave(1)
  \/ \E id \in DocumentIds : Quiet /\ DeleteLoad(1, id)
  \/ DeleteRemove(1, FALSE)
  \/ \E id \in DocumentIds : Quiet /\ getDocumentById(id)
  \/ \E page \in 1..2 : Quiet /\ getAllDocuments(1, page, 1)
  \/ DocumentsCount(1)
  \/ \E id \in DocumentIds, type \in ExportTypes : Quiet /\ exportDocument(1, id, type)
  \/ \E id \in DocumentIds : Quiet /\ exportSummary(1, id)
  \/ \E id \in DocumentIds : Quiet /\ exportQuiz(1, id)
  \/ \E id \in DocumentIds : Quiet /\ exportNotes(1, id)
  \/ \E id \in DocumentIds : Quiet /\ exportChatHistory(1, id)
  \/ ExportFind(1)
  \/ ExportRender(1)
  \/ \E id \in DocumentIds : Quiet /\ getExportOptions(1, id)
  \/ OptionsFind(1)

SpecExport == Init /\ [][NextExport]_vars

\* Every route that carries a document identifier, called with every kind
\* of identifier.  A request is received while no upload, delete or
\* regeneration is between two of its steps.
NextLookup ==
  \/ Quiet /\ UploadValidate(TRUE, "explain photosynthesis", QuietWorld)
  \/ \E u \in UploadSlots : UploadOcr(u)
  \/ \E u \in UploadSlots : UploadAnalyze(u)
  \/ \E u \in UploadSlots : UploadQuiz(u)
  \/ \E u \in UploadSlots : UploadVideo(u)
  \/ \E u \in UploadSlots : UploadPersist(u)
  \/ \E id \in RequestIds : Quiet /\ SendLoad(1, id, <<"Why", "?">>)
  \/ SendFind(1)
  \/ SendAnswer(1, Answer("Mitosis is cell division."))
  \/ SendSave(1)
  \/ \E id \in RequestIds : Quiet /\ clearChatHistory(1, id)
  \/ ClearFind(1)
  \/ ClearSave(1)
  \/ \E id \in RequestIds : Quiet /\ getChatHistory(1, id)
  \/ HistoryFind(1)
  \/ \E id \in RequestIds : Quiet /\ getDocumentContext(id)
  \/ \E id \in RequestIds : Quiet /\ RegenerateLoad(1, id)
  \/ RegenerateQuiz(1, AiDown)
  \/ RegenerateSave(1)
  \/ \E id \in RequestIds : Quiet /\ DeleteLoad(1, id)
  \/ DeleteRemove(1, FALSE)
  \/ \E id \in RequestIds : Quiet /\ getDocumentById(id)
  \/ \E id \in RequestIds : Quiet /\ exportDocument(1, id, None)
  \/ \E id \in RequestIds : Quiet /\ exportSummary(1, id)
  \/ \E id \in RequestIds : Quiet /\ exportQuiz(1, id)
  \/ \E id \in RequestIds : Quiet /\ exportNotes(1, id)
  \/ \E id \in RequestIds : Quiet /\ exportChatHistory(1, id)
  \/ ExportFind(1)
  \/ ExportRender(1)
  \/ \E id \in RequestIds : Quiet /\ getExportOptions(1, id)
  \/ OptionsFind(1)

SpecLookup == Init /\ [][NextLookup]_vars

\* the provider is configured and cannot be reached
OcrUnreachable == [OcrNothing EXCEPT !.text = "throws"]

\* the provider answers both detections with nothing
OcrNoDetections == [OcrNothing EXCEPT !.doc = "none"]

\* the structured detection fails and the plain one finds text
OcrPlainOnly == [OcrPlain EXCEPT !.doc = "throws", !.conf = 0]

OcrCallWorlds == OcrWorlds \cup {OcrUnreachable, OcrNoDetections, OcrPlainOnly}

\* image paths: the middleware's, a bare file name, an absolute path, a
\* path that ends in a separator
ImagePaths ==
  {UploadPath(n) : n \in 1..MaxUploads}
    \cup { <<"photo", ".", "jpg">>,
           <<"/", "tmp", "/", "scans", "/", "page 1", ".", "png">>,
           <<"uploads", "/">> }

\* One call of either mode of the OCR adapter, for every provider behaviour
\* and image path.
InitOcr ==
  /\ documents = <<>>
  /\ chats = <<>>
  /\ files = {}
  /\ now = 1
  /\ uploads = 0
  /\ sends = [s \in SendSlots |-> IdleSend]
  /\ resp = NoResponse
  /\ env = "production"
  /\ created = 0
  /\ work = [w \in WorkSlots |-> IdleWork]
  /\ \E entry \in {"extractTextFromImage", "detectDocumentStructure"},
        ocr \in OcrCallWorlds, imagePath \in ImagePaths :
       up = OcrCall(entry, ocr, imagePath)

NextOcr ==
  \/ DetectStep
  \/ ExtractStep
  \/ FallbackStep

SpecOcr == InitOcr /\ [][NextOcr]_vars

\* the items the provider's search can return, in any order and number
VideoPool == {ItemA, ItemB, ItemC}

SearchResults ==
  {items \in UNION {[1..n -> VideoPool] : n \in 0..Cardinality(VideoPool)} :
     \A i, j \in 1..Len(items) : items[i] = items[j] => i = j}

ViewCounts == {500, 5000, 50000}

\* the statistics entries of the videos in `present`
StatsOf(present, count) ==
  LET entry(id) == IF id \in present THEN <<[id |-> id, viewCount |-> count[id]]>>
                   ELSE <<>>
  IN entry("c") \o entry("b") \o entry("a")

StatsResults ==
  {StatsOf(present, count) :
     present \in SUBSET {"a", "b", "c"}, count \in [{"a", "b", "c"} -> ViewCounts]}

\* what the provider does during one plain search
PlainProviders ==
  {Provider(search, stats) :
     search \in {CallFails} \cup {Call("ok", items) : items \in SearchResults},
     stats \in {CallFails} \cup {Call("ok", entries) : entries \in StatsResults}}

\* what the provider does during the two calls of an educational search
EducationalProviders ==
  {Provider(CallFails, StatsABC), Provider(SearchABC, CallFails),
   Provider(SearchABC, StatsABC), Provider(Call("ok", <<ItemC>>), StatsABC),
   Provider(Call("ok", <<ItemLong>>), StatsLong)}

KeywordLists == {<< >>, <<"mitosis">>, <<"cell biology", "mitosis">>}

\* One call of either search of the video adapter, for every provider
\* behaviour and keyword list.
InitVideo ==
  /\ documents = <<>>
  /\ chats = <<>>
  /\ files = {}
  /\ now = 1
  /\ uploads = 0
  /\ sends = [s \in SendSlots |-> IdleSend]
  /\ resp = NoResponse
  /\ env = "production"
  /\ created = 0
  /\ work = [w \in WorkSlots |-> IdleWork]
  /\ \E plain \in PlainProviders, keywords \in KeywordLists :
       \/ up = VideoCall("searchVideos", [edu |-> plain, plain |-> plain], keywords)
       \/ \E edu \in EducationalProviders :
            up = VideoCall("getEducationalVideos", [edu |-> edu, plain |-> plain],
                           keywords)

NextVideo ==
  \/ SearchStep
  \/ EducationalStep

SpecVideo == InitVideo /\ [][NextVideo]_vars

\* no list of the chats is in flight (it runs in the last slot)
NoList == work[MaxWork].pc = "idle"

\* Uploads that run alone, sends that do not overlap each other, clear,
\* delete and the two lists.  A request starts while no upload is in
\* flight.  A list of the chats runs in a slot of its own: the steps that a
\* send and a delete or clear in flight still have to take fall between its
\* three queries in every way.
NextSession ==
  \/ Quiet /\ UploadValidate(TRUE, "explain photosynthesis", QuietWorld)
  \/ \E u \in UploadSlots : UploadOcr(u)
  \/ \E u \in UploadSlots : UploadAnalyze(u)
  \/ \E u \in UploadSlots : UploadQuiz(u)
  \/ \E u \in UploadSlots : UploadVideo(u)
  \/ \E u \in UploadSlots : UploadPersist(u)
  \/ \E id \in DocumentIds : NoUpload /\ NoList /\ SendLoad(1, id, <<"Why", "?">>)
  \/ SendFind(1)
  \/ \E ai \in ChatWorlds : SendAnswer(1, ai)
  \/ SendSave(1)
  \/ \E id \in DocumentIds : NoUpload /\ NoList /\ getChatHistory(1, id)
  \/ HistoryFind(1)
  \/ \E id \in DocumentIds : NoUpload /\ NoList /\ clearChatHistory(1, id)
  \/ ClearFind(1)
  \/ ClearSave(1)
  \/ \E id \in DocumentIds : NoUpload /\ NoList /\ DeleteLoad(1, id)
  \/ DeleteRemove(1, FALSE)
  \/ \E page \in 1..MaxPage, limit \in 1..MaxLimit : Quiet /\ getAllDocuments(1, page, limit)
  \/ DocumentsCount(1)
  \/ \E page \in 1..MaxPage, limit \in 1..MaxLimit : Quiet /\ getAllChats(MaxWork, page, limit)
  \/ NoUpload /\ getAllChats(MaxWork, 1, MaxLimit)
  \/ ChatsPopulate(MaxWork)
  \/ ChatsCount(MaxWork)

SpecSession == Init /\ [][NextSession]_vars

\* the object {}
AnalysisEmptyObject ==
  [AiDown EXCEPT !.mode = "responds", !.json = "object", !.text = "{}"]

\* no object, every field written as the patterns look for it: the
\* explanation is empty, the concepts are a bracket pair around a space
AnalysisScrapedAll ==
  TextResponse("\"Summary\": \"Cells divide.\"\n\"explanation\": \"\"\n"
                 \o "\"keyPoints\" : [\"prophase\", 'anaphase']\n"
                 \o "\"concepts\": [ ]\n\"searchKeywords\":[\"mitosis\"]")

\* a first "summary" that the pattern does not match, an empty bracket
\* pair and items with a comma inside the quotes
AnalysisScrapedOdd ==
  TextResponse("\"summary\": none. \"summary\" : \"Cells divide.\", "
                 \o "\"keyPoints\": [], \"concepts\": [\"a,b\", c]")

\* prose of 560 characters
AnalysisLongProse == TextResponse(Repeat("Cells divide. ", 40))

\* prose with Windows line ends, also between and around the items
AnalysisCrLf ==
  TextResponse("Result:\r\n\"summary\": \"Cells divide.\"\r\n"
                 \o "\"keyPoints\": [\"prophase\",\r\n\"anaphase\"]\r\n"
                 \o "\"concepts\": [\r\n\"mitosis\"\f]\r\n")

\* a vertical tab before one colon and after another
AnalysisVerticalTab ==
  TextResponse("\"summary\"" \o VerticalTab \o ": \"Cells divide.\" "
                 \o "\"explanation\":" \o VerticalTab \o "\"Mitosis.\" "
                 \o "\"keyPoints\"" \o VerticalTab \o ": [\"prophase\""
                 \o VerticalTab \o "]")

\* The AI provider for one analyzeContent call: unconfigured, throwing,
\* answering with an object, or answering with text that is no object.
AnalysisProviders ==
  {AiDown, AiThrows,
   AnalysisFull, AnalysisPartial, AnalysisEmptyObject,
   TextResponse(""), TextResponse("Here is the analysis"), AnalysisLongProse,
   AnalysisProse, AnalysisScrapedAll, AnalysisScrapedOdd,
   AnalysisCrLf, AnalysisVerticalTab}

\* extracted texts, as tokens
AnalysisTexts ==
  {<<"Cells", " ", "divide", ".">>,
   <<"Light", ".", " ", "Water", "!">>,
   <<"notes">>}

\* One analyzeContent call on any provider, text and prompt.
InitAnalysis ==
  /\ documents = <<>>
  /\ chats = <<>>
  /\ files = {}
  /\ now = 1
  /\ uploads = 0
  /\ sends = [s \in SendSlots |-> IdleSend]
  /\ resp = NoResponse
  /\ env = "production"
  /\ created = 0
  /\ work = [w \in WorkSlots |-> IdleWork]
  /\ \E ai \in AnalysisProviders, extractedText \in AnalysisTexts, userPrompt \in Prompts :
       up = AnalysisCall(ai, extractedText, userPrompt)

NextAnalysis == AnalyzeStep

SpecAnalysis == InitAnalysis /\ [][NextAnalysis]_vars

\* process.env.NODE_ENV
Modes == {"development", "production"}

\* The server started in either mode.
InitServer ==
  /\ documents = <<>>
  /\ chats = <<>>
  /\ files = {}
  /\ now = 1
  /\ uploads = 0
  /\ up = IdleUploads
  /\ sends = [s \in SendSlots |-> IdleSend]
  /\ resp = NoResponse
  /\ env \in Modes
  /\ created = 0
  /\ work = [w \in WorkSlots |-> IdleWork]

\* an upload whose structured OCR text is empty, which makes the handler
\* throw
ThrowingWorld == World(OcrEmptyPages, AiDown, AiDown, YtDown)

\* Requests that succeed, fail and throw, with the handlers of the
\* application file.
NextServer ==
  \/ \E hasFile \in BOOLEAN, prompt \in Prompts, world \in {QuietWorld, ThrowingWorld} :
       Quiet /\ UploadValidate(hasFile, prompt, world)
  \/ \E u \in UploadSlots : UploadOcr(u)
  \/ \E u \in UploadSlots : UploadAnalyze(u)
  \/ \E u \in UploadSlots : UploadQuiz(u)
  \/ \E u \in UploadSlots : UploadVideo(u)
  \/ \E u \in UploadSlots : UploadPersist(u)
  \/ \E id \in RequestIds, message \in Messages : Quiet /\ SendLoad(1, id, message)
  \/ SendFind(1)
  \/ \E ai \in ChatWorlds : SendAnswer(1, ai)
  \/ SendSave(1)
  \/ \E id \in RequestIds : Quiet /\ getChatHistory(1, id)
  \/ HistoryFind(1)
  \/ healthCheck
  \/ notFoundHandler
  \/ \E error \in MiddlewareErrors : errorHandler(error)

SpecServer == InitServer /\ [][NextServer]_vars

\* ================================================================ claims
\* ------------------------------------------------------------ chat claims
\* the messages getHistory would read for document id in collection cs
HistoryIn(cs, id) ==
  IF \E c \in 1..Len(cs) : cs[c].documentId = id
  THEN cs[CHOOSE c \in 1..Len(cs) :
            /\ cs[c].documentId = id
            /\ \A b \in 1..(c - 1) : cs[b].documentId # id].messages
  ELSE <<>>

HasChat(cs, id) == \E c \in 1..Len(cs) : cs[c].documentId = id

\* this step applies the save of the send request in slot s
SavesSend(s) == sends[s].pc = "saving" /\ sends'[s].pc = "idle"

\* this step sends a new response of operation op
Answers(op) == resp' # resp /\ resp'.op = op

\* this step answers a request of operation op in the request's first step,
\* the one that looks the Document up
AnswersAtOnce(op) == Answers(op) /\ sends' = sends /\ work' = work

\* the answers the adapter can give
AdapterAnswers ==
  {answerQuestion(ai, <<>>, "", <<>>).answer : ai \in ChatWorlds}

\* C1 under one step of sendMessage's save
C1_Step(s) ==
  LET r == sends[s]
      N == Len(r.messages)
      after == HistoryIn(chats', r.documentId)
  IN (/\ SavesSend(s)
      /\ resp'.status = 200
      /\ HasChat(chats, r.documentId) = (r.chatId # 0)
      /\ HistoryIn(chats, r.documentId) = r.messages)
     => /\ Len(after) = N + 2
        /\ SubSeq(after, 1, N) = HistoryIn(chats, r.documentId)
        /\ after[N + 1].role = "user"
        /\ after[N + 1].content = Flatten(r.message)
        /\ after[N + 2].role = "assistant"
        /\ after[N + 2].content = Get(resp'.body.data).aiResponse
        /\ after[N + 2].content \in AdapterAnswers
        /\ Get(resp'.body.data).messageCount = N + 2

\* C1: a successful send on a stored chat history of N messages (the history
\* the request read is the history stored when it saves) leaves a stored
\* history of N+2 messages: the first N unchanged and in order, message N+1
\* the user's with the sent content, message N+2 the assistant's with the
\* adapter's answer, and the reported messageCount is N+2.
C1_SendAppendsTurn == [][\A s \in SendSlots : C1_Step(s)]_vars

\* a send has answered 200 on a history that already held a turn
C1_Witness ==
  /\ resp.op = "send"
  /\ resp.status = 200
  /\ Get(resp.body.data).messageCount = 4
  /\ Len(HistoryIn(chats, resp.req.documentId)) = 4

\* this step answers a chat request for a well-formed id of no document
C2_AbsentDocument(op) ==
  /\ AnswersAtOnce(op)
  /\ resp'.req.documentId > 0
  /\ ~DocExists(resp'.req.documentId)

C2_Is404 ==
  /\ resp'.status = 404
  /\ resp'.body.success = FALSE
  /\ resp'.body.message = "Document not found"

\* C2 as stated: send, getHistory and clear on a well-formed identifier of
\* no Document answer 404 "Document not found" and leave chat storage alone.
C2_Original ==
  [][\A op \in {"send", "history", "clear"} :
       C2_AbsentDocument(op) => C2_Is404 /\ chats' = chats]_vars

\* C2: getHistory and clear on a well-formed identifier of no Document, and
\* send on one with a message that is not blank, answer 404 with success =
\* false and message "Document not found"; a send with a blank message is
\* answered 400 before the lookup.  In every case chat storage is untouched
\* and no send is left in flight.
C2_AbsentDocumentIs404 ==
  [][\A op \in {"send", "history", "clear"} :
       C2_AbsentDocument(op) =>
         /\ chats' = chats
         /\ sends' = sends
         /\ IF op = "send" /\ Trim(resp'.req.message) = <<>>
            THEN resp'.status = 400 /\ resp'.body.message = "Message cannot be empty"
            ELSE C2_Is404]_vars

\* a send with a message has been answered 404 for an absent document
C2_Witness ==
  /\ resp.op = "send"
  /\ resp.status = 404
  /\ Trim(resp.req.message) # <<>>
  /\ ~DocExists(resp.req.documentId)

\* C3 under one step
C3_Step ==
  /\ \A w \in WorkSlots :
       (/\ work[w].pc = "clearing" /\ work'[w].pc = "idle"
        /\ resp'.status = 200
        /\ chats[work[w].chatId] = work[w].chatHistory)
         => /\ chats'[work[w].chatId].messages = <<>>
            /\ HistoryIn(chats', work[w].id) = <<>>
  /\ \A id \in DocumentIds :
       (/\ Answers("history") /\ resp'.req.documentId = id /\ resp'.status = 200
        /\ HasChat(chats, id) /\ HistoryIn(chats, id) = <<>>)
         => /\ Get(resp'.body.data).messages = <<>>
            /\ Get(resp'.body.data).totalMessages = 0
  /\ \A s \in SendSlots :
       LET r == sends[s]
           after == HistoryIn(chats', r.documentId)
       IN (/\ SavesSend(s) /\ resp'.status = 200
           /\ r.chatId # 0 /\ r.messages = <<>>
           /\ HistoryIn(chats, r.documentId) = <<>>)
          => /\ Len(after) = 2
             /\ after[1].role = "user" /\ after[1].content = Flatten(r.message)
             /\ after[1].timestamp = r.updatedAt
             /\ after[2].role = "assistant"
             /\ after[2].content = Get(resp'.body.data).aiResponse
             /\ after[2].timestamp = r.updatedAt
             /\ r.updatedAt >= chats[r.chatId].updatedAt

\* C3: a clear on a document that has a chat record, saved on the record as
\* the clear read it, leaves it with no messages;
\* getHistory then returns an empty list; and the next successful send, which
\* reads the cleared record, leaves exactly two messages, its user message at
\* index 0 and the assistant reply at index 1, none from before the clear.
C3_ClearThenFreshTurn == [][C3_Step]_vars

\* a send has answered 200 on a record that was created earlier, cleared
\* since, and now holds that send's turn only
C3_Witness ==
  /\ resp.op = "send"
  /\ resp.status = 200
  /\ \E c \in 1..Len(chats) :
       /\ chats[c].documentId = resp.req.documentId
       /\ Len(chats[c].messages) = 2
       /\ chats[c].messages[1].timestamp > chats[c].createdAt + 1
       /\ Get(resp.body.data).messageCount = 2

\* C4: in every reachable state the store holds at most one ChatHistory
\* record per document.
C4_OneChatPerDocument ==
  \A b, c \in 1..Len(chats) : chats[b].documentId = chats[c].documentId => b = c

\* ---------------------------------------------------------- upload claims
\* the steps of an upload after validation, in the order of the handler
Pipeline == <<"ocr", "analyze", "quiz", "video", "persist">>

\* the number of steps an upload has made when it is at pc
StepsBefore(pc) ==
  CASE pc = "ocr" -> 0 [] pc = "analyze" -> 1 [] pc = "quiz" -> 2
    [] pc = "video" -> 3 [] pc = "persist" -> 4

\* this step is the persist step of upload u
PersistsUpload(u) == up[u].pc = "persist" /\ up'[u].pc = "idle"

\* the documents this step creates
Created == DOMAIN documents' \ DOMAIN documents

\* C5: after a successful upload the persisted Document's extractedText is
\* the text produced by the OCR step of that upload.
C5_PersistsOcrText ==
  [][\A u \in UploadSlots :
       (PersistsUpload(u) /\ resp'.status = 200)
         => documents'[Get(resp'.body.data).documentId].extractedText
              = Some(up[u].extractedText)]_vars

\* C6 under one step
C6_Step ==
  /\ \A u \in UploadSlots :
       (up'[u] # up[u] /\ up'[u].pc # "idle")
         => up'[u].calls = SubSeq(Pipeline, 1, StepsBefore(up'[u].pc))
  /\ Answers("upload")
       => /\ \E n \in 0..Len(Pipeline) : resp'.calls = SubSeq(Pipeline, 1, n)
          /\ (resp'.status = 400 <=> resp'.calls = <<>>)
          /\ (resp'.status = 400 <=> (~resp'.req.file \/ resp'.req.prompt = ""))
          /\ (resp'.status = 400 => up' = up /\ documents' = documents)
          /\ (resp'.status = 500 => documents' = documents /\ chats' = chats)
          /\ (resp'.status = 200 => resp'.calls = Pipeline)
  /\ documents' # documents /\ Created # {}
       => /\ \E u \in UploadSlots :
               PersistsUpload(u) /\ up[u].calls = SubSeq(Pipeline, 1, 4)
          /\ Answers("upload") /\ resp'.status = 200

\* C6: an upload runs validate, OCR, analyze, quiz, video search, persist in
\* that order and each at most once: the steps made so far are always an
\* initial part of that list.  A request rejected at validation (400) has
\* called no adapter; the Document is created by the last step only; and a
\* request answered 500 leaves the document store as it was.
C6_StepsInOrder == [][C6_Step]_vars

\* an upload has been aborted with 500 at its OCR step while the store held
\* a document
C6_Witness ==
  /\ resp.op = "upload"
  /\ resp.status = 500
  /\ resp.calls = <<"ocr">>
  /\ DOMAIN documents # {}

\* C7: an upload that carries an image file and a non-empty prompt returns
\* 200 and persists exactly one new Document, whatever the providers do.
C7_AlwaysPersists ==
  [][(Answers("upload") /\ resp'.req.file /\ resp'.req.prompt # "")
       => /\ resp'.status = 200
          /\ Cardinality(Created) = 1
          /\ \A d \in DOMAIN documents : d \in DOMAIN documents'
                                         /\ documents'[d] = documents[d]]_vars

\* the parts of a document or payload that upload and get both return
Shown(d) ==
  [analysis |-> d.analysis, quizQuestions |-> d.quizQuestions,
   youtubeVideos |-> d.youtubeVideos]

\* C8 under one step
C8_Step ==
  /\ (Answers("upload") /\ resp'.status = 200)
       => LET data == Get(resp'.body.data) IN
          /\ Created = {data.documentId}
          /\ Shown(data) = Shown(documents'[data.documentId])
  /\ ~Answers("regenerate")
       => \A d \in DOMAIN documents \cap DOMAIN documents' :
            Shown(documents'[d]) = Shown(documents[d])
  /\ (Answers("get") /\ resp'.status = 200)
       => /\ DocExists(resp'.req.id)
          /\ Get(resp'.body.data).id = resp'.req.id
          /\ Shown(Get(resp'.body.data)) = Shown(documents[resp'.req.id])

\* C8: the analysis, quizQuestions and youtubeVideos of an upload response
\* are those of the Document it stored; while the Document exists and its
\* quiz is not regenerated no step changes them; and a get by that
\* identifier returns the stored ones.  So a get after an upload, with no
\* regeneration or delete in between, returns what the upload returned.
C8_GetReturnsWhatUploadReturned == [][C8_Step]_vars

\* a get has returned a stored document with questions and videos
C8_Witness ==
  /\ resp.op = "get"
  /\ resp.status = 200
  /\ Get(resp.body.data).quizQuestions # <<>>
  /\ Get(resp.body.data).youtubeVideos # <<>>
  /\ Shown(Get(resp.body.data)) = Shown(documents[resp.req.id])

\* C9 under one step; version is the revision counter Mongoose keeps beside
\* the fields of the schema
C9_Step ==
  \A id \in DocumentIds :
    (Answers("regenerate") /\ resp'.req.id = id /\ DocExists(id))
      => /\ resp'.calls = <<QuizCall(documents[id].extractedText,
                                     documents[id].userPrompt)>>
         /\ DOMAIN documents' = DOMAIN documents
         /\ \A d \in DOMAIN documents \ {id} : documents'[d] = documents[d]
         /\ [documents'[id] EXCEPT !.quizQuestions = documents[id].quizQuestions,
                                   !.updatedAt = documents[id].updatedAt,
                                   !.version = documents[id].version]
              = documents[id]
         /\ chats' = chats
         /\ files' = files
         /\ resp'.status \in {200, 500}
         /\ resp'.status = 200
              => \E w \in WorkSlots :
                   /\ work[w].pc = "save" /\ work'[w].pc = "idle"
                   /\ work[w].id = id
                   /\ documents'[id].updatedAt = work[w].updated.updatedAt
                   /\ documents[id] = work[w].document
                        => /\ documents'[id].quizQuestions
                                = Get(resp'.body.data).quizQuestions
                           /\ documents'[id].updatedAt > documents[id].updatedAt
         /\ resp'.status = 500 => documents' = documents

\* C9: a quiz regeneration on an existing document makes one adapter call,
\* the quiz step with the document's stored extractedText and userPrompt,
\* and changes only quizQuestions and updatedAt of that document: its other
\* fields, every other Document, every ChatHistory record and the files are
\* as they were.
C9_RegenerateFrame == [][C9_Step]_vars

\* a regeneration has emptied the questions of one of two documents while a
\* chat record exists
C9_Witness ==
  /\ resp.op = "regenerate"
  /\ resp.status = 200
  /\ Cardinality(DOMAIN documents) = 2
  /\ chats # <<>>
  /\ documents[resp.req.id].quizQuestions = <<>>
  /\ documents[resp.req.id].updatedAt > documents[resp.req.id].createdAt

\* the quiz step fails: no provider, an exception, or a response that
\* cannot be parsed or holds a null question
QuizStepFails(q) ==
  \/ q.mode # "responds"
  \/ q.json # "object"
  \/ /\ IsSome(q.questions)
     /\ \E i \in 1..Len(Get(q.questions)) : Get(q.questions)[i].isNull

\* the quiz step yields no usable list: the parsed object has no questions
\* array, or none of its questions has a type, a question and an answer
QuizNothingUsable(q) ==
  /\ ~QuizStepFails(q)
  /\ \/ ~IsSome(q.questions)
     \/ SelectSeq(Get(q.questions), UsableQuestion) = <<>>

\* the document this persist step stores has quiz questions qs, and the
\* request is answered 200
C10_PersistsWith(qs) ==
  /\ resp'.status = 200
  /\ Created = {Get(resp'.body.data).documentId}
  /\ documents'[Get(resp'.body.data).documentId].quizQuestions = qs

\* C10 as stated: when the quiz step fails or yields no usable list, the
\* Document is persisted with an empty quizQuestions list and 200.
C10_Original ==
  [][\A u \in UploadSlots :
       (PersistsUpload(u)
          /\ (QuizStepFails(up[u].world.quiz) \/ QuizNothingUsable(up[u].world.quiz)))
         => C10_PersistsWith(<<>>)]_vars

\* C10: when the quiz step fails or yields no usable list the upload is not
\* aborted: the Document is persisted and the request returns 200.  Its
\* quizQuestions are the adapter's three stand-in questions when the
\* provider is not configured or throws (the mcq built on the prompt) or
\* its response cannot be parsed (the fixed three), and the empty list only
\* when the response parses and holds nothing usable.
C10_QuizFailureKeepsUpload ==
  [][\A u \in UploadSlots : PersistsUpload(u) =>
       LET q == up[u].world.quiz IN
       /\ QuizNothingUsable(q) => C10_PersistsWith(<<>>)
       /\ QuizStepFails(q)
            => \E qs \in {CastQuestions(ParseFallbackQuestions),
                          CastQuestions(fallbackQuizGeneration(
                            up[u].extractedText, up[u].userPrompt).questions)} :
                 /\ C10_PersistsWith(qs)
                 /\ Len(qs) = 3
                 /\ \A i \in 1..3 : qs[i].type \in QuizTypes
                 /\ (q.mode # "responds")
                      = (qs[3].correctAnswer = up[u].userPrompt)]_vars

\* an upload whose quiz response could not be parsed has been answered 200
\* with the three fixed questions
C10_Witness ==
  /\ resp.op = "upload"
  /\ resp.status = 200
  /\ Get(resp.body.data).quizQuestions = CastQuestions(ParseFallbackQuestions)
  /\ documents[Get(resp.body.data).documentId].quizQuestions
       = CastQuestions(ParseFallbackQuestions)

\* --------------------------------------------------- chat claims, C11-C13
\* this step saves the send of slot s on a record to which another request,
\* which read it no later than this one saved, has added its turn since
\* this one read it
C11_Interleaved(s) ==
  LET r == sends[s]
      N == Len(r.messages)
  IN /\ SavesSend(s)
     /\ resp'.status = 200
     /\ r.chatId # 0
     /\ Len(chats[r.chatId].messages) = N + 2
     /\ SubSeq(chats[r.chatId].messages, 1, N) = r.messages

\* C11 as stated: the later write wins.  The stored history after the
\* second save is the later writer's loaded messages followed by its own
\* two, and the earlier writer's turn is not in it.
C11_Original ==
  [][\A s \in SendSlots :
       C11_Interleaved(s) =>
         chats'[sends[s].chatId].messages
           = sends[s].messages
               \o Pushed(sends[s].message, Get(resp'.body.data).aiResponse,
                         sends[s].updatedAt)]_vars

\* C11: when two sends on a document's existing chat record interleave so
\* that both load the history before either saves, both succeed and both
\* turns are kept: the save appends to the stored array, so the history
\* after the second save is the loaded history, the earlier writer's turn,
\* then the later writer's user and assistant messages.  The later writer's
\* reported messageCount is that of its own copy, two short of the store.
C11_BothTurnsKept ==
  [][\A s \in SendSlots :
       C11_Interleaved(s) =>
         LET r == sends[s]
             N == Len(r.messages)
             after == chats'[r.chatId].messages
         IN /\ after = chats[r.chatId].messages
                         \o Pushed(r.message, Get(resp'.body.data).aiResponse,
                                   r.updatedAt)
            /\ Len(after) = N + 4
            /\ SubSeq(after, 1, N) = r.messages
            /\ after[N + 1].role = "user" /\ after[N + 2].role = "assistant"
            /\ after[N + 1].timestamp < now
            /\ after[N + 3].content = Flatten(r.message)
            /\ Get(resp'.body.data).messageCount = N + 2]_vars

\* the second of two interleaved sends on a history of one turn has been
\* answered 200, counting four messages where six are stored
C11_Witness ==
  /\ resp.op = "send"
  /\ resp.status = 200
  /\ Get(resp.body.data).messageCount = 4
  /\ Len(chats[Get(resp.body.data).chatId].messages) = 6
  /\ \A s \in SendSlots : sends[s].pc = "idle"

\* the last n elements of s, in order
C12_LastOf(s, n) ==
  LET m == IF n < Len(s) THEN n ELSE Len(s)
  IN [i \in 1..m |-> s[Len(s) - m + i]]

\* the line of the prompt for one message
C12_Line(m) ==
  (IF m.role = "user" THEN "USER: " ELSE "ASSISTANT: ") \o m.content \o "\n"

\* C12 under one step of the conversation about document 1
C12_Step ==
  LET stored == HistoryIn(chats, 1)
      N == Len(stored)
  IN /\ (sends[1].pc = "document" /\ sends'[1].pc = "loaded")
          => sends'[1].previousMessages = C12_LastOf(stored, 10)
     /\ (sends[1].pc = "loaded" /\ sends'[1].pc # "loaded"
           /\ stored = sends[1].messages)
          => LET calls == IF sends'[1].pc = "saving" THEN sends'[1].calls
                          ELSE resp'.calls
                 call == calls[1]
                 shown == C12_LastOf(stored, 5)
             IN /\ Len(calls) = 1
                /\ call.chatHistory = C12_LastOf(stored, 10)
                /\ Len(call.chatHistory) = (IF N < 10 THEN N ELSE 10)
                /\ IsSome(call.prompt)
                     => /\ Get(call.prompt).historyContext
                             = [i \in 1..Len(shown) |-> C12_Line(shown[i])]
                        /\ Len(Get(call.prompt).historyContext)
                             = (IF N < 5 THEN N ELSE 5)
     /\ (SavesSend(1) /\ stored = sends[1].messages)
          => /\ resp'.status = 200
             /\ resp'.calls = sends[1].calls
             /\ Len(HistoryIn(chats', 1)) = N + 2
             /\ SubSeq(HistoryIn(chats', 1), 1, N) = stored
     /\ (Answers("history") /\ resp'.status = 200)
          => /\ Get(resp'.body.data).messages = stored
             /\ Get(resp'.body.data).totalMessages = N

\* C12: when send runs on a stored history of N messages the adapter is
\* handed the last min(10, N) stored messages in stored order, the prompt
\* renders the last min(5, N) of them in order as "ROLE: content" lines, and
\* nothing is truncated in the store: the save leaves the N messages
\* followed by the new two, and getHistory returns every stored message.
C12_ContextWindow == [][C12_Step]_vars

\* getHistory has returned more than twelve messages after a send that was
\* handed ten of them
C12_Witness ==
  /\ resp.op = "history"
  /\ resp.status = 200
  /\ Get(resp.body.data).totalMessages = 14
  /\ Get(resp.body.data).messages[13].content = " Why?"
  /\ Get(resp.body.data).messages[14].content = "Mitosis is cell division."

\* C13 under one step
C13_Step ==
  /\ \A id \in DOMAIN documents :
       ~HasChat(chats, id) =>
         /\ (Answers("history") /\ resp'.req.documentId = id)
              => /\ resp'.status = 200
                 /\ resp'.body.success
                 /\ Get(resp'.body.data).messages = <<>>
                 /\ Get(resp'.body.data).totalMessages = 0
                 /\ chats' = chats
         /\ (Answers("clear") /\ resp'.req.documentId = id)
              => /\ resp'.status = 200
                 /\ resp'.body.success
                 /\ chats' = chats
  /\ Len(chats') >= Len(chats)
  /\ Len(chats') > Len(chats)
       => /\ Len(chats') = Len(chats) + 1
          /\ \E s \in SendSlots : SavesSend(s) /\ sends[s].chatId = 0
          /\ resp'.op = "send"
          /\ resp'.status = 200
          /\ chats'[Len(chats')].documentId = resp'.req.documentId
          /\ Len(chats'[Len(chats')].messages) = 2

\* C13: getHistory and clear on an existing document that has no chat record
\* answer 200 (getHistory with an empty message list, clear without any
\* write) and create no ChatHistory record; a record is created only by the
\* save of a send that answers 200.
C13_RecordsOnlyFromSend == [][C13_Step]_vars

\* clear has answered 200 for a stored document while no chat record exists
C13_Witness ==
  /\ resp.op = "clear"
  /\ resp.status = 200
  /\ resp.req.documentId \in DOMAIN documents
  /\ chats = <<>>

\* ------------------------------------------- lookup and delete, C14-C15
\* the identifier a request carries
RequestId(r) == IF "id" \in DOMAIN r.req THEN r.req.id ELSE r.req.documentId

\* this step answers a request that looks a Document up by identifier
AnswersLookup ==
  /\ resp' # resp
  /\ resp'.op # "upload"
  /\ sends' = sends
  /\ work' = work

\* C14: every operation that looks a Document up by identifier answers 400
\* when the identifier is malformed and 404 when it is well-formed and no
\* Document has it, and leaves the document and chat stores unchanged.
C14_LookupFailures ==
  [][AnswersLookup =>
       LET id == RequestId(resp') IN
       /\ IdMalformed(id)
            => resp'.status = 400 /\ documents' = documents /\ chats' = chats
       /\ (id > 0 /\ ~DocExists(id))
            => resp'.status = 404 /\ documents' = documents /\ chats' = chats]_vars

\* C15: delete of an existing document removes the Document record and
\* answers 200 whether or not the backing image file exists or can be
\* removed.
C15_DeleteBestEffort ==
  [][(Answers("delete") /\ DocExists(resp'.req.id))
       => /\ resp'.status = 200
          /\ resp'.body.success
          /\ resp'.req.id \notin DOMAIN documents']_vars

\* ------------------------------------------------------- exports, C16-C19
\* the operations that only read a stored Document
ReadingOps ==
  {"options", "export", "exportSummary", "exportQuiz", "exportNotes",
   "exportChat", "get", "list", "send", "history", "clear", "context"}

\* C16 under one step
C16_Step ==
  /\ \A d \in DOMAIN documents :
       (d \notin DOMAIN documents' \/ documents'[d] # documents[d])
         => /\ resp' # resp
            /\ resp'.req = [id |-> d]
            /\ \/ /\ resp'.op = "regenerate"
                  /\ resp'.status = 200
                  /\ d \in DOMAIN documents'
               \/ /\ resp'.op = "delete"
                  /\ d \notin DOMAIN documents'
  /\ (resp' # resp /\ resp'.op \in ReadingOps) => documents' = documents
  /\ Answers("options") => chats' = chats /\ files' = files /\ now' = now

\* C16: a stored Document is changed by quiz regeneration and removed by
\* delete, and by no other operation: export options, every export, get,
\* list and chat send, getHistory, clear and getContext leave every field
\* of every Document as it was, and export options leaves the chat store
\* as it was too, on every call.
C16_OnlyRegenerateAndDeleteWrite == [][C16_Step]_vars

\* export options has answered for a document that was regenerated and has
\* a conversation
C16_Witness ==
  /\ resp.op = "options"
  /\ resp.status = 200
  /\ documents[resp.req.id].updatedAt > documents[resp.req.id].createdAt
  /\ HasChat(chats, resp.req.id)

\* this step answers an export in quiz mode, by either route
AnswersQuizExport ==
  \/ Answers("exportQuiz")
  \/ Answers("export") /\ resp'.req.type = Some("quiz")

\* C17: export in quiz mode of a document with zero quiz questions answers
\* 404 "No quiz questions found for this document" and renders nothing, by
\* GET /export/:id/quiz and by GET /export/:id?type=quiz alike.
C17_QuizExportNeedsQuestions ==
  [][(/\ AnswersQuizExport
      /\ DocExists(resp'.req.id)
      /\ documents[resp'.req.id].quizQuestions = <<>>)
       => /\ resp'.status = 404
          /\ resp'.body.message = "No quiz questions found for this document"
          /\ resp'.calls = <<>>]_vars

\* this step answers GET /export/:id/chat for a document whose stored
\* history has a message
AnswersChatExport ==
  /\ Answers("exportChat")
  /\ DocExists(resp'.req.id)
  /\ HistoryIn(chats, resp'.req.id) # <<>>

\* C18: export in chat mode of a document whose history has at least one
\* message renders the document title and the transcript, every stored
\* message in stored order, and not the complete-mode content; with no chat
\* record or an empty history it answers 404.
C18_ChatExportRendersTranscript ==
  [][/\ AnswersChatExport
          => LET stored == HistoryIn(chats, resp'.req.id)
                 complete == generatePDF([document |-> documents[resp'.req.id],
                                          chatHistory |-> None,
                                          exportType |-> "complete"])
             IN /\ resp'.status = 200
                /\ resp'.body.pdf # complete
                /\ \E at \in 0..Len(resp'.body.pdf) :
                     /\ at + Len(stored) <= Len(resp'.body.pdf)
                     /\ \A i \in 1..Len(stored) :
                          resp'.body.pdf[at + i] = C12_Line(stored[i])
                            \/ resp'.body.pdf[at + i] = stored[i].content
     /\ (/\ Answers("exportChat")
         /\ DocExists(resp'.req.id)
         /\ HistoryIn(chats, resp'.req.id) = <<>>)
          => resp'.status = 404]_vars

\* the modes export options reports
C19_Modes == {"complete", "summary", "quiz", "notes", "chat"}

\* C19: export options for an existing document reports an availability
\* flag for each of the modes complete, summary, quiz, notes and chat;
\* summary is available iff analysis.summary is set, quiz iff the question
\* list is non-empty, chat iff the chat history is non-empty; nothing is
\* rendered.
C19_OptionsReportFiveModes ==
  [][(Answers("options") /\ DocExists(resp'.req.id))
       => LET document == documents[resp'.req.id]
              options == Get(resp'.body.data).exportOptions
          IN /\ resp'.status = 200
             /\ resp'.calls = <<>>
             /\ DOMAIN options = C19_Modes
             /\ \A mode \in C19_Modes : options[mode].available \in BOOLEAN
             /\ options.summary.available <=> document.analysis.summary # ""
             /\ options.quiz.available <=> document.quizQuestions # <<>>
             /\ options.chat.available
                  <=> HistoryIn(chats, resp'.req.id) # <<>>]_vars

\* ------------------------------------------------------ OCR adapter, C20
\* the file name of an image path: what follows its last separator
C20_FileName(path) ==
  LET slashes == {i \in 1..Len(path) : path[i] = "/"}
      last == IF slashes = {} THEN 0
              ELSE CHOOSE i \in slashes : \A j \in slashes : j <= i
  IN SubSeq(path, last + 1, Len(path))

\* text ends with the tokens of name
C20_EndsWith(text, name) ==
  /\ Len(name) <= Len(text)
  /\ SubSeq(text, Len(text) - Len(name) + 1, Len(text)) = name

\* no detection of the call that has returned was answered: the provider is
\* absent or misconfigured, or every detection failed or found nothing
C20_NothingDetected ==
  \/ ~up.ocr.configured
  \/ /\ up.ocr.text # "found"
     /\ up.entry = "detectDocumentStructure" => up.ocr.doc # "pages"

\* the result is the placeholder for the call's image
C20_IsPlaceholder(result) ==
  /\ result.success
  /\ result.confidence = 0
  /\ IsSome(result.extractedText)
  /\ SubSeq(Get(result.extractedText), 1, Len(PlaceholderBody)) = PlaceholderBody
  /\ C20_EndsWith(Get(result.extractedText), C20_FileName(up.imagePath))
  /\ ~IsSome(result.structuredText)

\* the call that has returned entered method
C20_Entered(method) == \E i \in 1..Len(resp.calls) : resp.calls[i] = method

\* what the two modes have in common in C20
C20_Common ==
  up.pc = "returned" =>
    /\ resp.result.success
    /\ resp.result = (IF up.entry = "detectDocumentStructure"
                      THEN detectDocumentStructure(up.ocr, up.imagePath)
                      ELSE extractTextFromImage(up.ocr, up.imagePath))
    /\ C20_NothingDetected => C20_IsPlaceholder(resp.result)
    /\ C20_NothingDetected <=> C20_Entered("fallbackTextExtraction")

\* C20 as stated: structured mode reaches the placeholder only by first
\* falling back to plain-text mode.
C20_Original ==
  /\ C20_Common
  /\ (/\ up.pc = "returned"
      /\ up.entry = "detectDocumentStructure"
      /\ C20_Entered("fallbackTextExtraction"))
       => resp.calls = << "detectDocumentStructure", "extractTextFromImage",
                          "fallbackTextExtraction" >>

\* C20: when the OCR provider is absent, misconfigured, unreachable or
\* detects nothing, both modes return success = true, confidence 0 and the
\* placeholder text that ends with the image's file name, and no call
\* returns success = false.  Structured mode of a configured provider
\* reaches the placeholder only by first falling back to plain-text mode;
\* when the provider is not configured either mode returns the placeholder
\* directly.
C20_FallbackToPlaceholder ==
  /\ C20_Common
  /\ (/\ up.pc = "returned"
      /\ up.entry = "detectDocumentStructure"
      /\ C20_Entered("fallbackTextExtraction"))
       => resp.calls = (IF up.ocr.configured
                        THEN << "detectDocumentStructure", "extractTextFromImage",
                                "fallbackTextExtraction" >>
                        ELSE << "detectDocumentStructure",
                                "fallbackTextExtraction" >>)

\* structured mode of a configured provider has returned the placeholder
\* for an image in a directory
C20_Witness ==
  /\ up.pc = "returned"
  /\ up.entry = "detectDocumentStructure"
  /\ up.ocr.configured
  /\ resp.result.confidence = 0
  /\ Len(C20_FileName(up.imagePath)) < Len(up.imagePath)
  /\ C20_FileName(up.imagePath) # <<>>

\* ------------------------------------------------------- adapters, C21-C23
\* text is non-empty, has no two consecutive line breaks, no two consecutive
\* spaces and no whitespace at either end
C21_Normalized(text) ==
  /\ text # <<>>
  /\ ~IsWs(text[1])
  /\ ~IsWs(text[Len(text)])
  /\ \A i \in 1..(Len(text) - 1) :
       /\ ~(text[i] = "\n" /\ text[i + 1] = "\n")
       /\ ~(text[i] = " " /\ text[i + 1] = " ")

\* C21: for every upload where the OCR provider is configured and returns
\* detections, the text that becomes extractedText is non-empty, has no two
\* consecutive line breaks, no two consecutive spaces and no leading or
\* trailing whitespace.
C21_ExtractedTextNormalized ==
  [][\A u \in UploadSlots :
       (/\ up[u].pc = "ocr"
        /\ up'[u].pc = "analyze"
        /\ up[u].world.ocr.configured
        /\ up[u].world.ocr.doc = "pages" \/ up[u].world.ocr.text = "found")
         => C21_Normalized(up'[u].extractedText)]_vars

\* the view count the provider's statistics hold for a video, 0 when they
\* hold none
C22_Views(stats, id) ==
  IF \E i \in 1..Len(stats) : stats[i].id = id
  THEN stats[CHOOSE i \in 1..Len(stats) : stats[i].id = id].viewCount
  ELSE 0

\* C22: a keyword search whose provider calls succeed returns success =
\* true and a list that is a permutation of the provider's items, each with
\* the view count of the statistics entry of its identifier (0 when there
\* is none), in order of non-increasing view count.
C22_SearchJoinsAndSorts ==
  (/\ up.pc = "returned"
   /\ resp.op = "searchVideos"
   /\ up.yt.plain.search.outcome = "ok"
   /\ up.yt.plain.stats.outcome = "ok")
    => LET items == up.yt.plain.search.items
           videos == resp.result.videos
       IN /\ resp.result.success
          /\ Len(videos) = Len(items)
          /\ \A i \in 1..Len(items) :
               \E j \in 1..Len(videos) :
                 /\ videos[j].videoId = items[i].videoId
                 /\ videos[j].title = items[i].title
                 /\ videos[j].channelTitle = items[i].channelTitle
                 /\ videos[j].viewCount
                      = C22_Views(up.yt.plain.stats.items, items[i].videoId)
          /\ \A j \in 1..(Len(videos) - 1) :
               videos[j].viewCount >= videos[j + 1].viewCount

\* the spec's scenario: items with view counts 500, 50000, 5000 have been
\* returned in the order 50000, 5000, 500
C22_Witness ==
  /\ up.pc = "returned"
  /\ resp.op = "searchVideos"
  /\ up.yt.plain.search = Call("ok", <<ItemA, ItemB, ItemC>>)
  /\ up.yt.plain.stats.outcome = "ok"
  /\ C22_Views(up.yt.plain.stats.items, "a") = 500
  /\ C22_Views(up.yt.plain.stats.items, "b") = 50000
  /\ C22_Views(up.yt.plain.stats.items, "c") = 5000
  /\ [j \in 1..3 |-> resp.result.videos[j].viewCount] = <<50000, 5000, 500>>
  /\ [j \in 1..3 |-> resp.result.videos[j].videoId] = <<"b", "c", "a">>

\* a provider call of this plain search fails: the search, or the
\* statistics lookup that follows a search with items
C23_PlainFails(provider) ==
  \/ provider.search.outcome = "throws"
  \/ provider.search.items # <<>> /\ provider.stats.outcome = "throws"

\* a provider call of this educational search fails
C23_EducationalFails(provider) ==
  \/ provider.search.outcome = "throws"
  \/ /\ \E i \in 1..Len(provider.search.items) : IsEducational(provider.search.items[i])
     /\ provider.stats.outcome = "throws"

\* C23: if a provider call of a plain search fails, searchVideos returns
\* success = false with exactly one placeholder video, view count 0 and the
\* generic search URL of the first keyword; if a provider call of an
\* educational search fails, its result is what plain search returns for
\* the same keywords.
C23_VideoFallbacks ==
  up.pc = "returned" =>
    /\ (resp.op = "searchVideos" /\ C23_PlainFails(up.yt.plain))
         => /\ ~resp.result.success
            /\ Len(resp.result.videos) = 1
            /\ resp.result.videos[1].viewCount = 0
            /\ resp.result.videos[1].videoId = "fallback"
            /\ up.keywords # <<>>
                 => resp.result.videos[1].url
                      = "https://www.youtube.com/results?search_query="
                          \o (IF up.keywords[1] = "cell biology"
                              THEN "cell%20biology" ELSE up.keywords[1])
    /\ (resp.op = "getEducationalVideos" /\ C23_EducationalFails(up.yt.edu))
         => resp.result = searchVideos(up.yt.plain, up.keywords, now)

\* an educational search whose statistics call failed has returned the
\* sorted videos of a working plain search
C23_Witness ==
  /\ up.pc = "returned"
  /\ resp.op = "getEducationalVideos"
  /\ up.yt.edu.stats.outcome = "throws"
  /\ up.yt.edu.search.outcome = "ok"
  /\ resp.result.success
  /\ Len(resp.result.videos) = 3
  /\ resp.result.videos[1].viewCount > resp.result.videos[3].viewCount

\* ------------------------------------------------------------ lists, C24
\* the smallest n with n * l >= total
C24_Ceil(total, l) == CHOOSE n \in 0..total : n * l >= total /\ (n = 0 \/ (n - 1) * l < total)

\* the pagination block of a list response
C24_Paged(items, pagination, total) ==
  /\ Len(items) <= resp'.req.limit
  /\ pagination.currentPage = resp'.req.page
  /\ pagination.totalPages = C24_Ceil(total, resp'.req.limit)
  /\ pagination.hasNext <=> resp'.req.page < C24_Ceil(total, resp'.req.limit)
  /\ pagination.hasPrev <=> resp'.req.page > 1

\* C24: for every page p >= 1, limit l >= 1 and store size, the list of
\* documents and the list of chats answer 200 with at most l items,
\* totalPages = ceil(total / l), hasNext = (p < ceil(total / l)) and
\* hasPrev = (p > 1).
C24_ListsPaginate ==
  [][/\ Answers("list")
          => /\ resp'.status = 200
             /\ C24_Paged(Get(resp'.body.data).documents,
                          Get(resp'.body.data).pagination,
                          Cardinality(DOMAIN documents))
     /\ Answers("chats")
          => /\ resp'.status = 200
             /\ C24_Paged(Get(resp'.body.data).chats,
                          Get(resp'.body.data).pagination, Len(chats))]_vars

\* ------------------------------------------------------ responses, C25-C26
\* the response body carries the optional field
C25_Carries(body, field) == field \in DOMAIN body /\ IsSome(body[field])

\* C25: every JSON response has the envelope fields success, message and
\* timestamp, carries data only on success or with a payload, and carries
\* error only when success is false.
C25_Envelope ==
  (resp # NoResponse /\ "contentType" \notin DOMAIN resp.body)
    => /\ {"success", "message", "timestamp"} \subseteq DOMAIN resp.body
       /\ resp.body.success \in BOOLEAN
       /\ C25_Carries(resp.body, "error") => ~resp.body.success
       /\ C25_Carries(resp.body, "data") => resp.body.success

\* C26: a 500 response carries the exception's message only in development
\* mode.
C26_MessageOnlyInDevelopment ==
  (/\ resp # NoResponse
   /\ resp.status = 500
   /\ C25_Carries(resp.body, "error")
   /\ Get(resp.body.error) # "Something went wrong")
    => env = "development"

\* ------------------------------------------------ analysis parsing, C27
C27_Fields == {"summary", "explanation", "keyPoints", "concepts", "searchKeywords"}

\* the field was found with a value the parser keeps
C27_Usable(fields, f) ==
  IF f \in {"summary", "explanation"} THEN Truthy(fields[f]) ELSE IsSome(fields[f])

C27_ObjectDefaults ==
  [summary |-> "Content analysis completed.",
   explanation |-> "Analysis provided based on the uploaded content.",
   keyPoints |-> <<"Analysis completed successfully">>,
   concepts |-> <<"Study material analysis">>,
   searchKeywords |-> <<"study", "education", "learning">>]

\* the provider's text is handed to the scraping patterns
C27_IsScraped(ai) ==
  ai.mode = "responds" /\ ~(HasJsonSpan(ai.text) /\ ai.json = "object")

\* what the two patterns find in the provider's text
C27_Scraped(ai) ==
  [summary |-> extractSection(ai.text, "summary"),
   explanation |-> extractSection(ai.text, "explanation"),
   keyPoints |-> extractArraySection(ai.text, "keyPoints"),
   concepts |-> extractArraySection(ai.text, "concepts"),
   searchKeywords |-> extractArraySection(ai.text, "searchKeywords")]

C27_ScrapeDefaults(ai) ==
  [summary |-> "AI analysis completed based on your uploaded content.",
   explanation |-> Substring(ai.text, 500) \o "...",
   keyPoints |-> <<"Content has been analyzed", "Key information extracted",
                   "Study material processed">>,
   concepts |-> <<"Study Material", "Educational Content">>,
   searchKeywords |-> <<"study", "education", "learning", "tutorial">>]

\* each field is the one found, or else its own default
C27_FieldByField(analysis, found, defaults) ==
  \A f \in C27_Fields :
    analysis[f] = IF C27_Usable(found, f) THEN Get(found[f]) ELSE defaults[f]

C27_ScrapedNothing(ai) == \A f \in C27_Fields : ~C27_Usable(C27_Scraped(ai), f)

\* the parts of the claim that do not depend on what scraping found
C27_Layers(ai, req, result) ==
  /\ result.success
  /\ DOMAIN result.analysis = C27_Fields
  /\ ai.mode # "responds"
       => result = fallbackAnalysis(req.extractedText, req.userPrompt)
  /\ (ai.mode = "responds" /\ ~C27_IsScraped(ai))
       => C27_FieldByField(result.analysis, ai.parsed, C27_ObjectDefaults)
  /\ (C27_IsScraped(ai) /\ ~C27_ScrapedNothing(ai))
       => C27_FieldByField(result.analysis, C27_Scraped(ai), C27_ScrapeDefaults(ai))

\* C27 as stated: analysis parsing is layered (object with per-field
\* defaults, then scraping), and a response from which nothing can be
\* scraped gives the word-count stub, the result of an unreachable provider;
\* every layer returns success = true with the five fields.
C27_Original ==
  resp.op = "analyzeContent"
    => /\ C27_Layers(resp.req.ai, resp.req, resp.result)
       /\ (/\ C27_IsScraped(resp.req.ai)
           /\ C27_ScrapedNothing(resp.req.ai))
            => resp.result = fallbackAnalysis(resp.req.extractedText,
                                              resp.req.userPrompt)

\* C27, amended: analysis parsing is layered (object with per-field
\* defaults, then scraping with per-field defaults), and a response from
\* which nothing can be scraped gives the fixed scraping defaults, with the
\* head of the response as explanation; the word-count stub is returned only
\* when the provider is unconfigured or throws; every layer returns
\* success = true with the five fields.
C27_LayeredParsing ==
  resp.op = "analyzeContent"
    => /\ C27_Layers(resp.req.ai, resp.req, resp.result)
       /\ (/\ C27_IsScraped(resp.req.ai)
           /\ C27_ScrapedNothing(resp.req.ai))
            => resp.result.analysis = C27_ScrapeDefaults(resp.req.ai)

C27_Witness ==
  /\ resp.op = "analyzeContent"
  /\ C27_IsScraped(resp.req.ai)
  /\ C27_ScrapedNothing(resp.req.ai)
  /\ Len(resp.req.ai.text) > 500
  /\ Len(resp.result.analysis.explanation) = 503
  /\ resp.result # fallbackAnalysis(resp.req.extractedText, resp.req.userPrompt)

\* -------------------------------------------------- chat storage, C28-C30
\* a step of a send request other than a save that answers 200
C28_SendFails ==
  \/ /\ resp' # resp
     /\ resp'.op = "send"
     /\ resp'.status # 200
  \/ \E s \in SendSlots : sends'[s] # sends[s] /\ ~SavesSend(s)

\* every user message is followed at once by an assistant message
C28_EveryQuestionAnswered(messages) ==
  \A i \in 1..Len(messages) :
    messages[i].role = "user"
      => i < Len(messages) /\ messages[i + 1].role = "assistant"

\* C28: send is all-or-nothing on chat storage: a send writes to the chat
\* store in the one step that answers 200, so that a send that ends in a
\* failure has written nothing, and no stored history holds a
\* user message without the assistant reply right after it.
C28_SendAllOrNothing ==
  [][/\ C28_SendFails => chats' = chats
     /\ \A c \in 1..Len(chats') : C28_EveryQuestionAnswered(chats'[c].messages)]_vars

\* a send failed after an earlier turn of the same document was stored, and
\* the store holds that turn alone
C28_Witness ==
  /\ resp.op = "send"
  /\ resp.status = 500
  /\ resp.calls # <<>>
  /\ \E c \in 1..Len(chats) :
       /\ chats[c].documentId = resp.req.documentId
       /\ Len(chats[c].messages) = 2

\* C29: with send and clear requests that do not overlap, every stored chat
\* history has an even number of messages that alternate in role, starting
\* with user.
C29_TurnsAlternate ==
  \A c \in 1..Len(chats) :
    LET messages == chats[c].messages IN
    /\ Len(messages) % 2 = 0
    /\ \A i \in 1..Len(messages) :
         messages[i].role = IF i % 2 = 1 THEN "user" ELSE "assistant"

\* a history that was cleared and then got a fresh turn
C29_Witness ==
  \E c \in 1..Len(chats) :
    /\ Len(chats[c].messages) = 2
    /\ chats[c].messages[1].timestamp > chats[c].createdAt

\* the chat records whose document is not stored
C30_Orphans(docs, records) ==
  {c \in 1..Len(records) : records[c].documentId \notin DOMAIN docs}

\* no send request that loaded the document before its delete is still
\* running
C30_NoSendInFlight(id) ==
  \A s \in SendSlots : sends[s].pc # "idle" => sends[s].documentId # id


====
